---- MODULE Spec2Model ----
(***************************************************************************)
(* The Guardian control loop of ServerlessContainers: the per-structure    *)
(* pipeline of Guardian.serverless / process_serverless_structure          *)
(* (usages -> limits repair -> events -> aging -> requests) over a         *)
(* CouchDB-like document store.                                            *)
(*                                                                         *)
(* Numbers.  Fields of structure and limits documents are integers.        *)
(* Usages and rule amounts are Python floats: they are kept in fixed point *)
(* with denominator Den (the value v stands for v / Den), so that int()    *)
(* truncates.  The clock counts 1 / Hz seconds, event timestamps are whole *)
(* seconds (int(time.time())).                                             *)
(***************************************************************************)
EXTENDS Integers, Sequences, FiniteSets, Bags, TLC

\* ---------------------------------------------------------------- bounds
Den == 2
Hz == 2
MaxDrift == 1

\* ------------------------------------------------------ program constants
NOT_AVAILABLE == -99
NO_METRIC_DATA_DEFAULT_VALUE == -1
MAX_LOOPS == 10

NON_ADJUSTABLE_RESOURCES == {"energy"}
Resources == {"cpu", "energy"}

NoData == NO_METRIC_DATA_DEFAULT_VALUE * Den

\* translator_dict and the GUARDIAN_*_METRICS tables: the derived usage
\* metrics of a structure, named here by their resource.
GuardianMetrics(subtype) ==
    IF subtype = "application" THEN {"cpu", "mem", "energy"} ELSE {"cpu", "mem"}

\* ------------------------------------------------------------- arithmetic
\* int(x) of a fixed-point x: truncation towards zero.
IntTrunc(x) == IF x >= 0 THEN x \div Den ELSE -((-x) \div Den)

\* int(boundary / 2) of an integer boundary.
HalfTrunc(b) == IF b >= 0 THEN b \div 2 ELSE -((-b) \div 2)

Min2(a, b) == IF a <= b THEN a ELSE b

\* ------------------------------------------------- StateInvariantRepairer
\* try_get_value: a missing key (kept as NOT_AVAILABLE) reads as "n/a".
try_get_value(d, key) == d[key]

\* A validation that accepts an upper limit further than boundary below
\* current.
check_state_any_gap(resources, limits, resource) ==
    LET max     == try_get_value(resources[resource], "max")
        current == try_get_value(resources[resource], "current")
        upper   == try_get_value(limits[resource], "upper")
        lower   == try_get_value(limits[resource], "lower")
        min     == try_get_value(resources[resource], "min")
        boundary == limits[resource]["boundary"]
    IN  IF ~resources[resource].present \/ ~limits[resource].present
          THEN "RuntimeError"
        ELSE IF boundary = NOT_AVAILABLE THEN "KeyError"
        ELSE IF NOT_AVAILABLE \in {max, current, upper, lower, min}
          THEN "ValueError"
        ELSE IF current > max THEN "RuntimeError"
        ELSE IF upper > current THEN "ValueError"
        ELSE IF lower > upper THEN "ValueError"
        ELSE IF current - boundary < upper THEN "ValueError"
        ELSE "ok"

\* check_invalid_container_state: "ok", or the exception it raises.
check_invalid_container_state(resources, limits, resource) ==
    LET max     == try_get_value(resources[resource], "max")
        current == try_get_value(resources[resource], "current")
        upper   == try_get_value(limits[resource], "upper")
        lower   == try_get_value(limits[resource], "lower")
        min     == try_get_value(resources[resource], "min")
        boundary == limits[resource]["boundary"]
    IN  IF ~resources[resource].present \/ ~limits[resource].present
          THEN "RuntimeError"
        ELSE IF boundary = NOT_AVAILABLE THEN "KeyError"
        ELSE IF NOT_AVAILABLE \in {max, current, upper, lower, min}
          THEN "ValueError"
        ELSE IF current > max THEN "RuntimeError"
        ELSE IF upper > current THEN "ValueError"
        ELSE IF lower > upper THEN "ValueError"
        ELSE IF current - boundary < upper THEN "ValueError"
        ELSE IF current - boundary > upper THEN "ValueError"
        ELSE "ok"

\* A repair step that keeps the lower limit at or above the minimum.
RepairLimitsAboveMin(resources, limits, resource) ==
    LET boundary == limits[resource]["boundary"]
        upper    == resources[resource]["current"] - boundary
        min      == resources[resource]["min"]
    IN  [limits EXCEPT ![resource]["upper"] = upper,
                       ![resource]["lower"] =
                           IF upper - boundary >= min THEN upper - boundary
                           ELSE min]

\* The repair step of adjust_container_state (the except ValueError branch).
RepairLimits(resources, limits, resource) ==
    LET boundary == limits[resource]["boundary"]
        upper    == resources[resource]["current"] - boundary
    IN  [limits EXCEPT ![resource]["upper"] = upper,
                       ![resource]["lower"] = upper - boundary]

\* A loop that returns the limits of its last repair without validating
\* them when the cap is reached.
RECURSIVE AdjustLoopReturning(_, _, _, _, _, _)
AdjustLoopReturning(resources, limits, resource, n_loop, checks, repaired) ==
    LET verdict == check_invalid_container_state(resources, limits, resource)
        stop(s, l, rep) == [status |-> s, limits |-> l, checks |-> checks + 1,
                            repaired |-> rep]
    IN  CASE verdict = "ok" -> stop("ok", limits, repaired)
          [] verdict = "ValueError" ->
               IF resources[resource]["current"] = NOT_AVAILABLE
                 THEN stop("KeyError", limits, repaired)
               ELSE IF n_loop + 1 >= MAX_LOOPS
                 THEN stop("ok", RepairLimits(resources, limits, resource),
                           TRUE)
               ELSE AdjustLoopReturning(resources,
                        RepairLimits(resources, limits, resource),
                        resource, n_loop + 1, checks + 1, TRUE)
          [] OTHER -> stop(verdict, limits, repaired)

\* The while loop of adjust_container_state for one resource, from n_loop.
\* Returns the outcome, the limits, the number of validations made and
\* whether the repair step was applied.
RECURSIVE AdjustLoop(_, _, _, _, _, _)
AdjustLoop(resources, limits, resource, n_loop, checks, repaired) ==
    IF n_loop >= MAX_LOOPS
      THEN [status |-> "ok", limits |-> limits, checks |-> checks,
            repaired |-> repaired]
    ELSE
      LET verdict == check_invalid_container_state(resources, limits, resource)
          stop(s, l) == [status |-> s, limits |-> l, checks |-> checks + 1,
                         repaired |-> repaired]
      IN  CASE verdict = "ok" ->
                 IF n_loop + 1 >= MAX_LOOPS
                   THEN stop("RuntimeError", limits)
                   ELSE stop("ok", limits)
            [] verdict = "ValueError" ->
                 IF resources[resource]["current"] = NOT_AVAILABLE
                   THEN stop("KeyError", limits)
                 ELSE IF n_loop + 1 >= MAX_LOOPS
                   THEN stop("RuntimeError",
                             RepairLimits(resources, limits, resource))
                 ELSE AdjustLoop(resources,
                                 RepairLimits(resources, limits, resource),
                                 resource, n_loop + 1, checks + 1, TRUE)
            [] OTHER -> stop(verdict, limits)

\* adjust_container_state over the list resources_to_adjust: the loop of each
\* resource in turn, stopping at the first exception.
RECURSIVE adjust_container_state(_, _, _)
adjust_container_state(resources, limits, resources_to_adjust) ==
    IF resources_to_adjust = <<>>
      THEN [status |-> "ok", limits |-> limits, checks |-> <<>>,
            repaired |-> {}]
    ELSE
      LET r    == Head(resources_to_adjust)
          one  == AdjustLoop(resources, limits, r, 0, 0, FALSE)
          rest == adjust_container_state(resources, one.limits,
                                         Tail(resources_to_adjust))
      IN  IF one.status # "ok"
            THEN [status |-> one.status, limits |-> one.limits,
                  checks |-> <<one.checks>>,
                  repaired |-> IF one.repaired THEN {r} ELSE {}]
            ELSE [status |-> rest.status, limits |-> rest.limits,
                  checks |-> <<one.checks>> \o rest.checks,
                  repaired |-> (IF one.repaired THEN {r} ELSE {})
                               \cup rest.repaired]

\* ------------------------------------------------------------ EventEngine
\* generate_event_name (MyUtils): the name of the scale bucket that is
\* nonzero, kept as <<resource, direction>>.  With both buckets nonzero the
\* outcome is not defined: tie is the outcome taken ("up", "down", "error").
EventDirection(scale, tie) ==
    IF scale.up > 0 /\ scale.down > 0 THEN tie
    ELSE IF scale.up > 0 THEN "up"
    ELSE IF scale.down > 0 THEN "down"
    ELSE "error"

generate_event_name(scale, resource, tie) ==
    <<resource, EventDirection(scale, tie)>>

\* generate_request_name (MyUtils): named by the sign of the amount.
generate_request_name(amount, resource) ==
    <<resource, IF amount < 0 THEN "RescaleDown" ELSE "RescaleUp">>

\* int(time.time()) at clock reading now.
Timestamp(now) == now \div Hz

generate_event(event_name, structure_name, resource, action, now) ==
    [name |-> event_name, resource |-> resource, structure |-> structure_name,
     action |-> action, timestamp |-> Timestamp(now)]

\* A comparison that also ages the event that is exactly event_timeout old.
IsStaleAtTimeout(event, now, event_timeout) ==
    event.timestamp * Hz <= now - event_timeout * Hz

\* The comparison of sort_events for one event at the clock reading now:
\* event["timestamp"] < time.time() - event_timeout.
IsStale(event, now, event_timeout) ==
    event.timestamp * Hz < now - event_timeout * Hz

\* A sort_events that ages nothing.
sort_events_keep_all(structure_events, times, event_timeout) ==
    [valid |-> structure_events, invalid |-> <<>>]

\* sort_events: time.time() is read once per event; times[i] is the reading
\* taken for structure_events[i].
RECURSIVE sort_events(_, _, _)
sort_events(structure_events, times, event_timeout) ==
    IF structure_events = <<>> THEN [valid |-> <<>>, invalid |-> <<>>]
    ELSE
      LET event == Head(structure_events)
          rest  == sort_events(Tail(structure_events), Tail(times),
                               event_timeout)
      IN  IF IsStale(event, Head(times), event_timeout)
            THEN [valid |-> rest.valid, invalid |-> <<event>> \o rest.invalid]
            ELSE [valid |-> <<event>> \o rest.valid, invalid |-> rest.invalid]

\* A reduction that keeps, per resource, the counters of the last event.
reduce_keeping_last(structure_events) ==
    [r \in Resources |->
        LET of_r == SelectSeq(structure_events, LAMBDA e : e.resource = r)
        IN  IF of_r = <<>> THEN [present |-> FALSE, up |-> 0, down |-> 0]
            ELSE [present |-> TRUE, up |-> of_r[Len(of_r)].action.up,
                  down |-> of_r[Len(of_r)].action.down]]

\* reduce_structure_events: per resource, the summed up and down counters;
\* a resource without events is not in the result (present = FALSE).
RECURSIVE reduce_structure_events(_)
reduce_structure_events(structure_events) ==
    IF structure_events = <<>>
      THEN [r \in Resources |-> [present |-> FALSE, up |-> 0, down |-> 0]]
    ELSE
      LET event == structure_events[Len(structure_events)]
          acc   == reduce_structure_events(
                     SubSeq(structure_events, 1, Len(structure_events) - 1))
          res   == event.resource
      IN  [acc EXCEPT ![res] = [present |-> TRUE,
                                up   |-> acc[res].up + event.action.up,
                                down |-> acc[res].down + event.action.down]]

\* jsonLogic on the predicates the rules use.  A variable that is missing
\* from the data compares as false.
JsonLogicUsage(pred, resource, data, resources, limits) ==
    LET usage == resources[resource].usage
        lim   == limits[resource]
    IN  /\ resource \in data
        /\ usage # NOT_AVAILABLE
        /\ CASE pred.op = "usage_gt_upper" ->
                  lim.upper # NOT_AVAILABLE /\ usage > lim.upper * Den
             [] pred.op = "usage_lt_lower" ->
                  lim.lower # NOT_AVAILABLE /\ usage < lim.lower * Den
             [] OTHER -> FALSE

JsonLogicEvents(pred, counters) ==
    CASE pred.op = "up_ge_down_le" ->
           counters.up >= pred.a /\ counters.down <= pred.b
      [] pred.op = "down_ge_up_le" ->
           counters.down >= pred.a /\ counters.up <= pred.b
      [] OTHER -> FALSE

rule_triggers_event(rule, data, resources, limits) ==
    /\ rule.active
    /\ resources[rule.resource].present
    /\ resources[rule.resource].guard
    /\ rule.generates = "events"
    /\ JsonLogicUsage(rule.rule, rule.resource, data, resources, limits)

\* The resources match_usages_and_limits builds a context for.
UsefulResources(rules, guardable_resources) ==
    {r \in guardable_resources :
        \E i \in 1..Len(rules) : rules[i].resource = r}

\* The usages merged into the structure's resources (the context shares the
\* resource dictionaries of the structure, so the structure sees them too).
MergeUsages(resources, usages, useful) ==
    [r \in Resources |->
        IF r \in DOMAIN usages /\ r \in useful
          THEN [resources[r] EXCEPT !.usage = usages[r]]
          ELSE resources[r]]

RECURSIVE TriggeredEvents(_, _, _, _, _, _)
TriggeredEvents(structure_name, rules, data, resources, limits, now) ==
    IF rules = <<>> THEN <<>>
    ELSE
      LET rule == Head(rules)
          rest == TriggeredEvents(structure_name, Tail(rules), data,
                                  resources, limits, now)
      IN  IF rule_triggers_event(rule, data, resources, limits)
            THEN <<generate_event(
                     generate_event_name(rule.action, rule.resource, "error"),
                     structure_name, rule.resource, rule.action, now)>>
                 \o rest
            ELSE rest

\* match_usages_and_limits: the new events, and the resources with the
\* usages merged.  A useful resource without limits, or a usage of a useful
\* resource the structure does not have, is a KeyError outside the rules'
\* try block.
match_usages_and_limits(structure_name, rules, usages, limits, resources, guardable_resources, now) ==
    LET useful == UsefulResources(rules, guardable_resources)
        data   == {r \in useful : resources[r].present}
        merged == MergeUsages(resources, usages, useful)
    IN  IF \/ \E r \in data : ~limits[r].present
           \/ \E r \in DOMAIN usages : r \in useful /\ r \notin data
          THEN [status |-> "KeyError", events |-> <<>>,
                resources |-> resources]
          ELSE [status |-> "ok",
                events |-> TriggeredEvents(structure_name, rules, data,
                                           merged, limits, now),
                resources |-> merged]

\* ----------------------------------------------------------- AmountPolicy
\* adjust_amount, on a fixed-point amount.
adjust_amount(amount, structure_resources, structure_limits) ==
    LET expected_value == structure_resources["current"] * Den + amount
        lower_limit    == structure_limits["lower"] * Den + amount
        min_limit      == structure_resources["min"] * Den
        max_limit      == structure_resources["max"] * Den
    IN  IF lower_limit < min_limit THEN amount + (min_limit - lower_limit)
        ELSE IF expected_value > max_limit
          THEN amount - (expected_value - max_limit)
        ELSE amount

get_amount_from_fit_reduction(current_resource_limit, boundary, current_resource_usage) ==
    LET desired_applied_resource_limit ==
            current_resource_usage + (HalfTrunc(boundary) + boundary) * Den
    IN  -1 * (current_resource_limit * Den - desired_applied_resource_limit)

get_amount_from_proportional_energy_rescaling(structure, resource, cpu_shares_per_watt) ==
    LET max_resource_limit     == structure.resources[resource]["max"] * Den
        current_resource_limit == structure.resources[resource]["usage"]
        difference             == max_resource_limit - current_resource_limit
        energy_amplification   == difference * cpu_shares_per_watt
    IN  IntTrunc(energy_amplification) * Den

\* The amount left as the policy set it, whatever its size.
RoundingGuardNone(amount) == amount

\* The special case for an amount between -1 and 1.
RoundingGuard(amount) ==
    IF IntTrunc(amount) = 0 /\ amount < 0 THEN -1 * Den
    ELSE IF IntTrunc(amount) = 0 /\ amount > 0 THEN 1 * Den
    ELSE amount

\* The rescale_by a rule is evaluated with: "amount" when it has none.
RescaleBy(rule) == IF rule.rescale_by = "" THEN "amount" ELSE rule.rescale_by

\* The keys the policy of a rule reads; one of them missing is a KeyError.
PolicyKeysPresent(structure, rule, limits, usages) ==
    LET r == rule.resource
    IN  CASE RescaleBy(rule) = "fit_to_usage" ->
               /\ structure.resources[r].current # NOT_AVAILABLE
               /\ limits[r].present
               /\ limits[r].boundary # NOT_AVAILABLE
               /\ r \in DOMAIN usages
          [] RescaleBy(rule) = "proportional" /\ r = "energy" ->
               /\ structure.resources[r].max # NOT_AVAILABLE
               /\ structure.resources[r].usage # NOT_AVAILABLE
          [] OTHER -> rule.amount # NOT_AVAILABLE

\* The amount of the policy set by the rule, before the rounding guard.
PolicyAmount(structure, rule, limits, usages, cpu_shares_per_watt) ==
    LET r == rule.resource
    IN  CASE RescaleBy(rule) = "amount" -> rule.amount
          [] RescaleBy(rule) = "fit_to_usage" ->
               get_amount_from_fit_reduction(structure.resources[r].current,
                                             limits[r].boundary, usages[r])
          [] RescaleBy(rule) = "proportional" /\ r = "energy" ->
               get_amount_from_proportional_energy_rescaling(
                   structure, r, cpu_shares_per_watt)
          [] OTHER -> rule.amount

\* The keys adjust_amount reads.
ClampKeysPresent(structure, rule, limits) ==
    LET r == rule.resource
    IN  /\ limits[r].present
        /\ limits[r].lower # NOT_AVAILABLE
        /\ structure.resources[r].current # NOT_AVAILABLE
        /\ structure.resources[r].min # NOT_AVAILABLE
        /\ structure.resources[r].max # NOT_AVAILABLE

\* An amount that is clamped for every resource, an energy rule's amount by
\* the cpu values its request will change.
RuleAmountClampedOnCpu(structure, rule, limits, usages, cpu_shares_per_watt) ==
    LET r       == IF rule.resource = "energy" THEN "cpu" ELSE rule.resource
        guarded == RoundingGuard(PolicyAmount(structure, rule, limits, usages,
                                              cpu_shares_per_watt))
    IN  adjust_amount(guarded, structure.resources[r], limits[r])

\* The amount of a fired rule: policy, rounding guard, then the clamp for a
\* resource that is not in NON_ADJUSTABLE_RESOURCES.
RuleAmount(structure, rule, limits, usages, cpu_shares_per_watt) ==
    LET r       == rule.resource
        guarded == RoundingGuard(PolicyAmount(structure, rule, limits, usages,
                                              cpu_shares_per_watt))
    IN  IF r \notin NON_ADJUSTABLE_RESOURCES
          THEN adjust_amount(guarded, structure.resources[r], limits[r])
          ELSE guarded

\* ----------------------------------------------------------- RequestEngine
\* A request that keeps the resource of its rule.
generate_request_as_is(structure, amount, resource, action, rule, now) ==
    [type |-> "request",
     resource |-> resource,
     amount |-> IntTrunc(amount),
     structure |-> structure.name,
     action |-> action,
     timestamp |-> Timestamp(now),
     structure_type |-> structure.subtype,
     for_energy |-> FALSE,
     rule |-> rule.name]

\* generate_request, with the rewrite of an energy request to cpu.  The field
\* rule is not part of the document: it records the rule the request comes
\* from.
generate_request(structure, amount, resource, action, rule, now) ==
    [type |-> "request",
     resource |-> IF resource = "energy" THEN "cpu" ELSE resource,
     amount |-> IntTrunc(amount),
     structure |-> structure.name,
     action |-> action,
     timestamp |-> Timestamp(now),
     structure_type |-> structure.subtype,
     for_energy |-> (resource = "energy"),
     rule |-> rule.name]

is_container(structure) == structure.subtype = "container"

\* The condition under which a rule is evaluated for a request.
RuleFires(rule, events) ==
    /\ rule.active
    /\ rule.generates = "requests"
    /\ events[rule.resource].present
    /\ JsonLogicEvents(rule.rule, events[rule.resource])

EventNames == Resources \X {"up", "down"}

NoEventsToRemove == [n \in EventNames |-> 0]

\* A pass that asks for events to be removed only when it made a request.
RulePassRemovingOnRequest(structure, rule, events, limits, usages, cpu_shares_per_watt, tie, now) ==
    LET r      == rule.resource
        none   == [status |-> "skipped", requests |-> <<>>, name |-> <<>>,
                   n |-> 0]
        amount == RuleAmount(structure, rule, limits, usages,
                             cpu_shares_per_watt)
        reqs   == IF amount # 0
                    THEN <<generate_request(structure, amount, r,
                              generate_request_name(amount, r), rule, now)>>
                    ELSE <<>>
        name   == generate_event_name(events[r], r, tie)
    IN  IF ~RuleFires(rule, events) THEN none
        ELSE IF ~structure.resources[r].present
          THEN [none EXCEPT !.status = "KeyError"]
        ELSE IF is_container(structure)
                /\ structure.resources[r].current = NOT_AVAILABLE
          THEN [none EXCEPT !.status = "no_current"]
        ELSE IF ~PolicyKeysPresent(structure, rule, limits, usages)
          THEN [none EXCEPT !.status = "KeyError"]
        ELSE IF r \notin NON_ADJUSTABLE_RESOURCES
                /\ ~ClampKeysPresent(structure, rule, limits)
          THEN [none EXCEPT !.status = "KeyError"]
        ELSE IF name[2] = "error"
          THEN [none EXCEPT !.status = "fatal"]
        ELSE IF rule.events_to_remove = NOT_AVAILABLE
          THEN [status |-> "KeyError", requests |-> reqs, name |-> name,
                n |-> 0]
        ELSE [status |-> "fired", requests |-> reqs, name |-> name,
              n |-> IF amount # 0 THEN rule.events_to_remove ELSE 0]

\* One pass of the loop of match_rules_and_events for a rule: what it adds
\* to generated_requests and to events_to_remove, or the exception that
\* leaves the loop ("fatal").  A KeyError ends the pass of that rule only,
\* keeping what the pass had already appended.
RulePass(structure, rule, events, limits, usages, cpu_shares_per_watt, tie, now) ==
    LET r      == rule.resource
        none   == [status |-> "skipped", requests |-> <<>>, name |-> <<>>,
                   n |-> 0]
        amount == RuleAmount(structure, rule, limits, usages,
                             cpu_shares_per_watt)
        reqs   == IF amount # 0
                    THEN <<generate_request(structure, amount, r,
                              generate_request_name(amount, r), rule, now)>>
                    ELSE <<>>
        name   == generate_event_name(events[r], r, tie)
    IN  IF ~RuleFires(rule, events) THEN none
        ELSE IF ~structure.resources[r].present
          THEN [none EXCEPT !.status = "KeyError"]
        ELSE IF is_container(structure)
                /\ structure.resources[r].current = NOT_AVAILABLE
          THEN [none EXCEPT !.status = "no_current"]
        ELSE IF ~PolicyKeysPresent(structure, rule, limits, usages)
          THEN [none EXCEPT !.status = "KeyError"]
        ELSE IF r \notin NON_ADJUSTABLE_RESOURCES
                /\ ~ClampKeysPresent(structure, rule, limits)
          THEN [none EXCEPT !.status = "KeyError"]
        ELSE IF name[2] = "error"
          THEN [none EXCEPT !.status = "fatal"]
        ELSE IF rule.events_to_remove = NOT_AVAILABLE
          THEN [status |-> "KeyError", requests |-> reqs, name |-> name,
                n |-> 0]
        ELSE [status |-> "fired", requests |-> reqs, name |-> name,
              n |-> rule.events_to_remove]

\* match_rules_and_events: the requests generated and the number of events
\* to remove per event name, the rules taken in order.
RECURSIVE match_rules_and_events(_, _, _, _, _, _, _, _)
match_rules_and_events(structure, rules, events, limits, usages, cpu_shares_per_watt, tie, now) ==
    IF rules = <<>>
      THEN [status |-> "ok", generated_requests |-> <<>>,
            events_to_remove |-> NoEventsToRemove, fired |-> {}]
    ELSE
      LET rule == rules[Len(rules)]
          acc  == match_rules_and_events(structure,
                     SubSeq(rules, 1, Len(rules) - 1), events, limits, usages,
                     cpu_shares_per_watt, tie, now)
          pass == RulePass(structure, rule, events, limits, usages,
                           cpu_shares_per_watt, tie, now)
      IN  IF acc.status # "ok" THEN acc
          ELSE IF pass.status = "fatal"
            THEN [acc EXCEPT !.status = "ValueError"]
          ELSE [status |-> "ok",
                generated_requests |-> acc.generated_requests \o pass.requests,
                events_to_remove |->
                    IF pass.name = <<>> THEN acc.events_to_remove
                    ELSE [acc.events_to_remove EXCEPT
                             ![pass.name] = @ + pass.n],
                fired |-> IF pass.status \in {"fired", "KeyError"}
                                /\ pass.name # <<>>
                            THEN acc.fired \cup {rule.name}
                            ELSE acc.fired]

\* ------------------------------------------------------------------ state
VARIABLES
    structure,    \* the structure document of the guarded structure
    limits_db,    \* its limits document ("resources" of it)
    rules_db,     \* the rules collection, in get_rules order
    events_db,    \* the events collection, a bag of documents
    requests_db,  \* the requests collection, a bag of documents
    config,       \* the configuration of the tick
    clock,        \* time.time(), in 1 / Hz seconds
    pc,           \* where the structure's thread is in its pipeline
    loc,          \* the local values of the thread in this tick
    upd,          \* the call of __resilient_update_doc in progress
    updb,         \* the store's side of the document being updated
    call,         \* the facade write the caller made, and made again
    main,         \* the loop of guard
    fan,          \* the thread of guard_structures
    peer          \* the thread of another structure of the fan-out

vars == <<structure, limits_db, rules_db, events_db, requests_db, config,
          clock, pc, loc, upd, updb, call, main, fan, peer>>

store == <<structure, limits_db, rules_db, events_db, requests_db>>

\* What a step of the structure's pipeline leaves alone.
others == <<upd, updb, call, main, fan, peer>>

\* ---------------------------------------------------------------- helpers
RECURSIVE SeqToBag(_)
SeqToBag(s) ==
    IF s = <<>> THEN EmptyBag ELSE SetToBag({Head(s)}) (+) SeqToBag(Tail(s))

\* The documents of a bag as a list, in one fixed order.
RECURSIVE BagToSeq(_)
BagToSeq(B) ==
    IF BagToSet(B) = {} THEN <<>>
    ELSE LET e == CHOOSE d \in BagToSet(B) : TRUE
         IN  <<e>> \o BagToSeq(B (-) SetToBag({e}))

\* The ways a list of the documents of B can meet the clock: the list is in
\* the store's order, which is any order, and the clock readings of the
\* successive calls of time.time() go from t0 up to at most t1.  Each way
\* is the list with the reading taken at each of its documents.
RECURSIVE Readings(_, _, _)
Readings(B, t0, t1) ==
    IF t0 >= t1
      THEN {[events |-> BagToSeq(B),
             times |-> [i \in 1..BagCardinality(B) |-> t0]]}
    ELSE UNION {
           {[events |-> BagToSeq(E) \o r.events,
             times |-> [i \in 1..BagCardinality(E) |-> t0] \o r.times] :
               r \in Readings(B (-) E, t0 + 1, t1)} :
           E \in SubBag(B)}

\* find_documents_by_matches(events, {"structure": name}).
EventsOf(db, structure_name) ==
    [e \in {d \in BagToSet(db) : d.structure = structure_name} |-> db[e]]

\* The documents of db that delete_num_events_by_structure may delete.
Matching(db, structure_name, event_name) ==
    [e \in {d \in BagToSet(db) :
               d.structure = structure_name /\ d.name = event_name} |-> db[e]]

\* A consumption that removes every event of the structure.
ConsumedChoicesAll(db, structure_name, events_to_remove) ==
    {EventsOf(db, structure_name)}

\* The events deleted by the calls of delete_num_events_by_structure for
\* events_to_remove: of each event name, as many as asked for or all that
\* match, whichever is less; which ones is the store's order of documents.
ConsumedChoices(db, structure_name, events_to_remove) ==
    {D \in SubBag(EventsOf(db, structure_name)) :
        \A n \in EventNames :
            BagCardinality(Matching(D, structure_name, n)) =
                Min2(events_to_remove[n],
                     BagCardinality(Matching(db, structure_name, n)))}

LocInit ==
    [usages |-> <<>>, limits |-> <<>>, resources |-> <<>>, error |-> "",
     wrote_limits |-> FALSE, checks |-> <<>>, repaired |-> {},
     triggered_events |-> <<>>, db_before_age |-> EmptyBag,
     db_before_consume |-> EmptyBag,
     all_events |-> <<>>, times |-> <<>>, aged_at |-> 0,
     filtered_events |-> <<>>, old_events |-> <<>>,
     reduced_events |-> <<>>, events_to_remove |-> NoEventsToRemove,
     fired |-> {}, consumed |-> EmptyBag, triggered_requests |-> <<>>,
     written_requests |-> <<>>, ops |-> <<>>]

\* No update call in progress. previous_tries is the parameter of the
\* current invocation of __resilient_update_doc; posts, conflicts and
\* missing count the write attempts of the call and the 409 and 404 answers
\* to them, status is the last answer.
UpdIdle ==
    [pc |-> "idle", doc |-> [rev |-> 0], previous_tries |-> 0, posts |-> 0,
     conflicts |-> 0, missing |-> 0, status |-> 0, refetches |-> 0,
     error |-> ""]

\* The store's side: whether the collection exists, whether it holds the
\* document, and the document's revision.
UpdbInit == [exists |-> TRUE, present |-> TRUE, rev |-> 1]

\* No facade write made by the caller yet.
CallIdle ==
    [op |-> "", n |-> 0, docs |-> <<>>, foreign |-> FALSE,
     after_first |-> EmptyBag]

\* The loop of guard before its first iteration: tick counts the iterations
\* begun, ops are the store operations of the iteration, wake is the clock
\* at which time.sleep(window_difference) is due to return.
MainIdle ==
    [pc |-> "load", tick |-> 0, active |-> FALSE, ops |-> <<>>, wake |-> 0,
     woke_at |-> 0, warned |-> FALSE, delay_start |-> 0, delay |-> 0,
     store_at_load |-> <<>>]

\* No thread of guard_structures: structures is the list it was given, i
\* the index of its for loop, threads the threads it started, finished the
\* structures whose call of serverless is over, raised those of them in
\* whose pipeline an exception was raised, done_at the clock at its end.
FanIdle ==
    [pc |-> "idle", structures |-> <<>>, i |-> 1, threads |-> {},
     rules_read |-> FALSE, finished |-> {}, raised |-> {}, done_at |-> 0]

\* No thread for the other structure of the deployment.
PeerIdle == [pc |-> "idle", outcome |-> ""]

\* The local values once the aging step is over: the list read, the clock
\* readings and the two lists of sort_events are no longer referenced.
AfterAging(l) ==
    [l EXCEPT !.db_before_age = EmptyBag, !.all_events = <<>>,
              !.times = <<>>, !.old_events = <<>>,
              !.filtered_events = BagToSeq(SeqToBag(l.filtered_events))]

LimitsEmpty(limits) == \A r \in Resources : ~limits[r].present

\* The usages a metrics query may return for the structure.
UsageValues == {NoData, 1 * Den, 3 * Den + 1, 6 * Den}

UsageChoices(subtype) ==
    {u \in [GuardianMetrics(subtype) -> UsageValues] :
        /\ u["mem"] \in {NoData, 1 * Den}
        /\ u["mem"] # NoData => u["cpu"] = NoData
        /\ "energy" \in DOMAIN u =>
              /\ u["mem"] = NoData
              /\ u["cpu"] \in {NoData, 3 * Den + 1}
              /\ u["cpu"] # NoData => u["energy"] = NoData}

\* A test that takes a structure without the flag for a guarded one.
IsGuardedUnlessFalse(s) == "guard" \notin DOMAIN s \/ s.guard

\* serverless: the structure is guarded, the negation of
\* "guard" not in structure or not structure["guard"].
IsGuarded(s) == "guard" \in DOMAIN s /\ s.guard

\* ---------------------------------------------------------------- actions
\* A tick that goes on to the limits whatever the usages are.
GetUsagesNoSkip ==
    /\ pc = "start"
    /\ clock < config.horizon
    /\ \E u \in UsageChoices(structure.subtype) :
          /\ loc' = [LocInit EXCEPT !.usages = u, !.ops = <<"read_usages">>]
          /\ pc' = "get_limits"
    /\ UNCHANGED <<store, config, others, clock>>

\* serverless, up to the query of the usages.
GetUsages ==
    /\ pc = "start"
    /\ clock < config.horizon
    /\ IF ~IsGuarded(structure)
         THEN /\ pc' = "sleep"
              /\ loc' = LocInit
         ELSE \E u \in UsageChoices(structure.subtype) :
                /\ loc' = [LocInit EXCEPT !.usages = u,
                                          !.ops = <<"read_usages">>]
                /\ pc' = IF \A m \in DOMAIN u : u[m] = NoData
                           THEN "sleep" ELSE "get_limits"
    /\ UNCHANGED <<store, config, others, clock>>

\* serverless: get_limits.
GetLimits ==
    /\ pc = "get_limits"
    /\ loc' = [loc EXCEPT !.limits = limits_db,
                          !.ops = Append(@, "read_limits")]
    /\ pc' = IF LimitsEmpty(limits_db) THEN "sleep" ELSE "adjust"
    /\ UNCHANGED <<store, config, others, clock>>

\* serverless: adjust_container_state and update_limit, for a container.
AdjustState ==
    /\ pc = "adjust"
    /\ IF structure.subtype = "container"
         THEN LET res == adjust_container_state(structure.resources,
                             loc.limits, config.GUARDABLE_RESOURCES)
              IN  IF res.status = "ok"
                    THEN /\ limits_db' = res.limits
                         /\ loc' = [loc EXCEPT !.limits = res.limits,
                                               !.wrote_limits = TRUE,
                                               !.ops = Append(@, "write_limits"),
                                               !.checks = res.checks,
                                               !.repaired = res.repaired]
                         /\ pc' = "gen_events"
                    ELSE /\ limits_db' = limits_db
                         /\ loc' = [loc EXCEPT !.limits = res.limits,
                                               !.error = res.status,
                                               !.checks = res.checks,
                                               !.repaired = res.repaired]
                         /\ pc' = "sleep"
         ELSE /\ pc' = "gen_events"
              /\ UNCHANGED <<limits_db, loc>>
    /\ UNCHANGED <<structure, rules_db, events_db, requests_db, config, others,
                   clock>>

\* process_serverless_structure: match_usages_and_limits and add_events.
GenEvents ==
    /\ pc = "gen_events"
    /\ LET m == match_usages_and_limits(structure.name, rules_db, loc.usages,
                    loc.limits, structure.resources,
                    {config.GUARDABLE_RESOURCES[i] :
                        i \in 1..Len(config.GUARDABLE_RESOURCES)}, clock)
       IN  IF m.status = "ok"
             THEN /\ events_db' = events_db (+) SeqToBag(m.events)
                  /\ loc' = [loc EXCEPT !.triggered_events = m.events,
                                        !.resources = m.resources,
                                        !.ops = IF m.events = <<>> THEN @
                                                ELSE Append(@, "write_events")]
                  /\ pc' = "get_events"
             ELSE /\ events_db' = events_db
                  /\ loc' = [loc EXCEPT !.error = m.status]
                  /\ pc' = "sleep"
    /\ UNCHANGED <<structure, limits_db, rules_db, requests_db, config, others,
                   clock>>

\* process_serverless_structure: get_events.
GetEvents ==
    /\ pc = "get_events"
    /\ loc' = [loc EXCEPT
                 !.all_events = BagToSeq(EventsOf(events_db, structure.name)),
                 !.ops = Append(@, "read_events")]
    /\ pc' = "age"
    /\ UNCHANGED <<store, config, others, clock>>

\* process_serverless_structure: sort_events and delete_events.
AgeEvents ==
    /\ pc = "age"
    /\ \E r \in Readings(SeqToBag(loc.all_events), clock, clock + MaxDrift) :
          LET sorted == sort_events(r.events, r.times, config.EVENT_TIMEOUT)
          IN  /\ events_db' = events_db (-) SeqToBag(sorted.invalid)
              /\ clock' = IF r.times = <<>> THEN clock
                          ELSE r.times[Len(r.times)]
              /\ loc' = [loc EXCEPT !.db_before_age = events_db,
                                    !.aged_at = clock,
                                    !.all_events = r.events,
                                    !.times = r.times,
                                    !.filtered_events = sorted.valid,
                                    !.old_events = sorted.invalid,
                                    !.ops = IF sorted.invalid = <<>> THEN @
                                            ELSE Append(@, "delete_stale")]
              /\ pc' = IF sorted.valid = <<>> THEN "sleep" ELSE "match"
    /\ UNCHANGED <<structure, limits_db, rules_db, requests_db, config, others>>

\* A step that writes the requests before it removes the events.
MatchRulesWritingFirst ==
    /\ pc = "match"
    /\ \E tie \in {"up", "down", "error"} :
          LET reduced == reduce_structure_events(loc.filtered_events)
              m == match_rules_and_events(
                       [structure EXCEPT !.resources = loc.resources],
                       rules_db, reduced, loc.limits, loc.usages,
                       config.CPU_SHARES_PER_WATT, tie, clock)
          IN  IF m.status = "ok"
                THEN \E D \in ConsumedChoices(events_db, structure.name,
                                              m.events_to_remove) :
                       /\ events_db' = events_db (-) D
                       /\ requests_db' =
                              requests_db (+) SeqToBag(m.generated_requests)
                       /\ loc' = [AfterAging(loc) EXCEPT
                                    !.reduced_events = reduced,
                                    !.db_before_consume = events_db,
                                    !.events_to_remove = m.events_to_remove,
                                    !.fired = m.fired,
                                    !.consumed = D,
                                    !.ops = (IF m.generated_requests = <<>>
                                               THEN @
                                               ELSE Append(@, "write_requests"))
                                            \o (IF m.fired = {} THEN <<>>
                                                ELSE <<"delete_consumed">>),
                                    !.written_requests = m.generated_requests,
                                    !.triggered_requests =
                                        m.generated_requests]
                       /\ pc' = "sleep"
                ELSE /\ events_db' = events_db
                     /\ requests_db' = requests_db
                     /\ loc' = [AfterAging(loc) EXCEPT
                                    !.reduced_events = reduced,
                                    !.error = m.status]
                     /\ pc' = "sleep"
    /\ UNCHANGED <<structure, limits_db, rules_db, config, others, clock>>

\* process_serverless_structure: reduce_structure_events,
\* match_rules_and_events and the calls of delete_num_events_by_structure.
MatchRules ==
    /\ pc = "match"
    /\ \E tie \in {"up", "down", "error"} :
          LET reduced == reduce_structure_events(loc.filtered_events)
              m == match_rules_and_events(
                       [structure EXCEPT !.resources = loc.resources],
                       rules_db, reduced, loc.limits, loc.usages,
                       config.CPU_SHARES_PER_WATT, tie, clock)
          IN  IF m.status = "ok"
                THEN \E D \in ConsumedChoices(events_db, structure.name,
                                              m.events_to_remove) :
                       /\ events_db' = events_db (-) D
                       /\ loc' = [AfterAging(loc) EXCEPT
                                    !.reduced_events = reduced,
                                    !.db_before_consume = events_db,
                                    !.events_to_remove = m.events_to_remove,
                                    !.fired = m.fired,
                                    !.consumed = D,
                                    !.ops = IF m.fired = {} THEN @
                                            ELSE Append(@, "delete_consumed"),
                                    !.triggered_requests =
                                        m.generated_requests]
                       /\ pc' = "add_requests"
                ELSE /\ events_db' = events_db
                     /\ loc' = [AfterAging(loc) EXCEPT
                                    !.reduced_events = reduced,
                                    !.error = m.status]
                     /\ pc' = "sleep"
    /\ UNCHANGED <<structure, limits_db, rules_db, requests_db, config, others,
                   clock>>

\* A step that writes the requests and applies them to the structure.
AddRequestsApplying ==
    /\ pc = "add_requests"
    /\ requests_db' = requests_db (+) SeqToBag(loc.triggered_requests)
    /\ structure' =
          IF loc.triggered_requests = <<>> THEN structure
          ELSE LET q == loc.triggered_requests[1]
               IN  [structure EXCEPT
                       !.resources[q.resource].current = @ + q.amount]
    /\ loc' = [loc EXCEPT !.written_requests = loc.triggered_requests,
                          !.ops = IF loc.triggered_requests = <<>> THEN @
                                  ELSE Append(@, "write_requests")]
    /\ pc' = "sleep"
    /\ UNCHANGED <<limits_db, rules_db, events_db, config, others, clock>>

\* process_serverless_structure: add_requests.
AddRequests ==
    /\ pc = "add_requests"
    /\ requests_db' = requests_db (+) SeqToBag(loc.triggered_requests)
    /\ loc' = [loc EXCEPT !.written_requests = loc.triggered_requests,
                          !.ops = IF loc.triggered_requests = <<>> THEN @
                                  ELSE Append(@, "write_requests")]
    /\ pc' = "sleep"
    /\ UNCHANGED <<structure, limits_db, rules_db, events_db, config, others, clock>>

\* guard: time.sleep(window_difference), then the next tick.
Sleep ==
    /\ pc = "sleep"
    /\ \E d \in (config.WINDOW_TIMELAPSE * Hz)
                ..(config.WINDOW_TIMELAPSE * Hz + MaxDrift) :
          /\ clock + d <= config.horizon
          /\ clock' = clock + d
    /\ pc' = "start"
    /\ loc' = LocInit
    /\ UNCHANGED <<store, config, others>>

Next ==
    \/ GetUsages
    \/ GetLimits
    \/ AdjustState
    \/ GenEvents
    \/ GetEvents
    \/ AgeEvents
    \/ MatchRules
    \/ AddRequests
    \/ Sleep

\* ------------------------------------------------------------ initial states
MaxClock == 6

Absent == [present |-> FALSE, min |-> NOT_AVAILABLE, max |-> NOT_AVAILABLE,
           current |-> NOT_AVAILABLE, guard |-> FALSE,
           usage |-> NOT_AVAILABLE]

NoLimits == [present |-> FALSE, lower |-> NOT_AVAILABLE,
             upper |-> NOT_AVAILABLE, boundary |-> NOT_AVAILABLE]

Resource(min, max, current) ==
    [present |-> TRUE, min |-> min, max |-> max, current |-> current,
     guard |-> TRUE, usage |-> NOT_AVAILABLE]

Limits(lower, upper, boundary) ==
    [present |-> TRUE, lower |-> lower, upper |-> upper,
     boundary |-> boundary]

Container(cpu) ==
    [name |-> "node0", subtype |-> "container", guard |-> TRUE,
     resources |-> [cpu |-> cpu, energy |-> Absent]]

Application(cpu, energy) ==
    [name |-> "node0", subtype |-> "application", guard |-> TRUE,
     resources |-> [cpu |-> cpu, energy |-> energy]]

EventRule(name, resource, op, up, down) ==
    [name |-> name, active |-> TRUE, resource |-> resource,
     generates |-> "events", rule |-> [op |-> op, a |-> 0, b |-> 0],
     action |-> [up |-> up, down |-> down], amount |-> NOT_AVAILABLE,
     rescale_by |-> "", events_to_remove |-> NOT_AVAILABLE]

RequestRule(name, resource, op, a, b, amount, rescale_by, events_to_remove) ==
    [name |-> name, active |-> TRUE, resource |-> resource,
     generates |-> "requests", rule |-> [op |-> op, a |-> a, b |-> b],
     action |-> [up |-> 0, down |-> 0], amount |-> amount,
     rescale_by |-> rescale_by, events_to_remove |-> events_to_remove]

\* The rules of a deployment that guards cpu: n events of a direction (and
\* at most one of the other, for scaling up) make a request.
CpuRules(n, up_amount, up_by, down_amount, down_by, events_to_remove) ==
    << EventRule("cpu_exceeded_upper", "cpu", "usage_gt_upper", 1, 0),
       EventRule("cpu_dropped_lower", "cpu", "usage_lt_lower", 0, 1),
       RequestRule("CpuRescaleUp", "cpu", "up_ge_down_le", n, 1,
                   up_amount, up_by, events_to_remove),
       RequestRule("CpuRescaleDown", "cpu", "down_ge_up_le", n, 0,
                   down_amount, down_by, events_to_remove) >>

\* The rules of the energy capping scenario: usage over the upper limit
\* scales down, usage under the lower limit scales up, both by the
\* proportional policy.
EnergyRules(n) ==
    << EventRule("energy_exceeded_upper", "energy", "usage_gt_upper", 0, 1),
       EventRule("energy_dropped_lower", "energy", "usage_lt_lower", 1, 0),
       RequestRule("EnergyRescaleDown", "energy", "down_ge_up_le", n, 0,
                   NOT_AVAILABLE, "proportional", n),
       RequestRule("EnergyRescaleUp", "energy", "up_ge_down_le", n, 0,
                   NOT_AVAILABLE, "proportional", n) >>

RuleSets ==
    { CpuRules(2, 2 * Den, "amount", -1, "amount", 2),
      CpuRules(1, NOT_AVAILABLE, "fit_to_usage", NOT_AVAILABLE,
               "fit_to_usage", 1),
      CpuRules(1, 1, "", -2 * Den, "amount", 2) }

Config(guardable, shares, horizon) ==
    [WINDOW_TIMELAPSE |-> 1, EVENT_TIMEOUT |-> 2,
     GUARDABLE_RESOURCES |-> guardable, CPU_SHARES_PER_WATT |-> shares,
     horizon |-> horizon]

\* A container that guards cpu, over several ticks.
InitContainer ==
    /\ structure \in {Container(Resource(2, 5, c)) : c \in {4, 5}}
    /\ limits_db \in {[cpu |-> Limits(l[1], l[2], b), energy |-> NoLimits] :
                         l \in {<<2, 3>>, <<5, 5>>}, b \in {1, 2}}
    /\ rules_db \in RuleSets
    /\ config = Config(<<"cpu">>, 5, MaxClock)

\* An application under energy capping, over several ticks.
InitApplication ==
    /\ structure \in {Application(Resource(2, 5, c), Resource(0, 4, NOT_AVAILABLE)) :
                         c \in {NOT_AVAILABLE, 4}}
    /\ limits_db = [cpu |-> Limits(2, 3, 1), energy |-> Limits(2, 3, 1)]
    /\ rules_db \in {EnergyRules(1),
                     CpuRules(1, 2 * Den, "amount", -1, "amount", 1)
                        \o EnergyRules(2)}
    /\ config \in {Config(<<"cpu", "energy">>, k, MaxClock) : k \in {1, 5}}

\* A container with any limits document, over one tick.
InitRepair ==
    /\ structure \in {Container(Resource(2, 5, c)) :
                         c \in {NOT_AVAILABLE, 3, 4, 5, 6}}
    /\ limits_db \in {[cpu |-> Limits(l, u, b), energy |-> NoLimits] :
                         l \in {NOT_AVAILABLE, 0, 2, 3, 4},
                         u \in {NOT_AVAILABLE, 2, 3, 4},
                         b \in {NOT_AVAILABLE, -1, 0, 1, 2}}
    /\ rules_db = CpuRules(1, 2 * Den, "amount", -1, "amount", 1)
    /\ config = Config(<<"cpu">>, 5, 1 * Hz)

Stores ==
    /\ events_db = EmptyBag
    /\ requests_db = EmptyBag
    /\ clock = 0
    /\ pc = "start"
    /\ loc = LocInit
    /\ upd = UpdIdle
    /\ updb = UpdbInit
    /\ call = CallIdle
    /\ main = MainIdle
    /\ fan = FanIdle
    /\ peer = PeerIdle

InitOneTick == InitRepair /\ Stores

Init == (InitContainer \/ InitApplication) /\ Stores

\* ------------------------------------------------------------- properties
\* The requests of the tick, once match_rules_and_events has returned.
Matched == pc \in {"add_requests", "sleep"} /\ loc.reduced_events # <<>>
                /\ loc.error = ""

TickRequests == {loc.triggered_requests[i] :
                    i \in 1..Len(loc.triggered_requests)}

\* C1: every request of a rule whose resource is not energy leaves the
\* allocation inside the structure's range:
\* min <= current + amount <= max.
C1_AllocationInRange ==
    Matched =>
        \A q \in TickRequests :
            ~q.for_energy =>
                LET res == structure.resources[q.resource]
                IN  /\ res.min <= res.current + q.amount
                    /\ res.current + q.amount <= res.max

\* C2: every request of a rule whose resource is not energy keeps the lower
\* limit, moved by the amount, at or above the minimum:
\* lower + amount >= min.
C2_LowerKeepsMin ==
    Matched =>
        \A q \in TickRequests :
            ~q.for_energy =>
                loc.limits[q.resource].lower + q.amount
                    >= structure.resources[q.resource].min

\* The guardable resources of the tick.
Guardable == {config.GUARDABLE_RESOURCES[i] :
                 i \in 1..Len(config.GUARDABLE_RESOURCES)}

\* C3: when adjust_container_state returns, upper = current - boundary for
\* every resource it adjusted.
C3_UpperBelowCurrent ==
    loc.wrote_limits =>
        \A r \in Guardable :
            limits_db[r].upper
                = structure.resources[r].current - limits_db[r].boundary

\* A container whose limits were repaired and written.
C3_Witness ==
    /\ loc.wrote_limits
    /\ loc.repaired = {"cpu"}
    /\ loc.checks = <<2>>
    /\ pc = "gen_events"

\* C4 as stated: lower = upper - boundary whenever adjust_container_state
\* returns, the repair step applied or not.
C4_LowerBelowUpperAlways ==
    loc.wrote_limits =>
        \A r \in Guardable :
            limits_db[r].lower = limits_db[r].upper - limits_db[r].boundary

\* C4, amended: when adjust_container_state returns, lower <= upper for every
\* resource it adjusted, and lower = upper - boundary for every resource the
\* repair step was applied to.
C4_LowerBelowUpper ==
    loc.wrote_limits =>
        \A r \in Guardable :
            /\ limits_db[r].lower <= limits_db[r].upper
            /\ r \in loc.repaired =>
                  limits_db[r].lower
                      = limits_db[r].upper - limits_db[r].boundary

\* A repair that put the lower limit under the minimum, and was written.
C4_Witness ==
    /\ loc.wrote_limits
    /\ "cpu" \in loc.repaired
    /\ limits_db["cpu"].lower < structure.resources["cpu"].min

\* C5: after a tick that wrote the limits, min <= lower < upper < current
\* <= max for every guarded resource.
C5_Chain ==
    (pc = "sleep" /\ loc.wrote_limits) =>
        \A r \in Guardable :
            LET res == structure.resources[r]
                lim == limits_db[r]
            IN  /\ res.min <= lim.lower
                /\ lim.lower < lim.upper
                /\ lim.upper < res.current
                /\ res.current <= res.max

\* The up and down counters of resource r summed over the documents of B.
RECURSIVE Tally(_, _)
Tally(B, r) ==
    IF BagToSet(B) = {} THEN [up |-> 0, down |-> 0]
    ELSE LET e    == CHOOSE d \in BagToSet(B) : TRUE
             rest == Tally(B (-) SetToBag({e}), r)
         IN  IF e.resource = r
               THEN [up |-> rest.up + e.action.up,
                     down |-> rest.down + e.action.down]
               ELSE rest

\* The structure's events left in the store by the aging step of the tick.
FreshEvents == EventsOf(loc.db_before_consume, structure.name)

\* C6: a request is emitted in a tick only for an active rule that
\* generates requests and whose predicate holds on the up and down counters
\* summed over the structure's events that are not stale at that tick; no
\* event older than EVENT_TIMEOUT is among them.
C6_RequestsFromFreshEvents ==
    Matched =>
        \A q \in TickRequests :
            /\ \E i \in 1..Len(rules_db) :
                  /\ rules_db[i].name = q.rule
                  /\ rules_db[i].active
                  /\ rules_db[i].generates = "requests"
                  /\ JsonLogicEvents(rules_db[i].rule,
                                     Tally(FreshEvents, rules_db[i].resource))
            /\ \A e \in BagToSet(FreshEvents) :
                  e.timestamp * Hz
                      >= loc.aged_at - config.EVENT_TIMEOUT * Hz

\* A request of a rule that asks for two events, made from two events.
C6_Witness ==
    /\ Matched
    /\ \E q \in TickRequests :
          \E i \in 1..Len(rules_db) :
              /\ rules_db[i].name = q.rule
              /\ rules_db[i].rule.a = 2
    /\ BagCardinality(FreshEvents) >= 2

\* The aging step of the tick has run on a list that is not empty.
Aged == loc.times # <<>>

\* all_events[i] is not stale at the clock reading taken for it.
ValidAt(i) ==
    loc.all_events[i].timestamp * Hz
        >= loc.times[i] - config.EVENT_TIMEOUT * Hz

\* C7: the aging step splits the structure's events into the valid ones
\* (timestamp >= now - EVENT_TIMEOUT) and the stale ones, each event in
\* exactly one of the two, and deletes exactly the stale ones from the store.
C7_AgingPartitions ==
    Aged =>
        \A d \in BagToSet(loc.db_before_age) :
            LET here  == {i \in 1..Len(loc.all_events) : loc.all_events[i] = d}
                valid == {i \in here : ValidAt(i)}
            IN  /\ d.structure = structure.name
                      => Cardinality(here) = CopiesIn(d, loc.db_before_age)
                /\ CopiesIn(d, SeqToBag(loc.filtered_events))
                      = Cardinality(valid)
                /\ CopiesIn(d, SeqToBag(loc.old_events))
                      = Cardinality(here \ valid)
                /\ CopiesIn(d, events_db)
                      = CopiesIn(d, loc.db_before_age)
                            - Cardinality(here \ valid)

\* An aging step with a stale event and an event that is exactly
\* EVENT_TIMEOUT old, which is kept.
C7_Witness ==
    /\ Aged
    /\ \E i \in 1..Len(loc.all_events) : ~ValidAt(i)
    /\ \E i \in 1..Len(loc.all_events) :
          loc.all_events[i].timestamp * Hz
              = loc.times[i] - config.EVENT_TIMEOUT * Hz
    /\ loc.old_events # <<>> /\ loc.filtered_events # <<>>

\* The structure as match_rules_and_events sees it in the tick.
TickStructure == [structure EXCEPT !.resources = loc.resources]

\* The rule went through its pass of the tick and its amount came out 0.
ClampedToZero(rule) ==
    /\ rule.name \in loc.fired
    /\ rule.resource \notin NON_ADJUSTABLE_RESOURCES
    /\ RuleAmount(TickStructure, rule, loc.limits, loc.usages,
                  config.CPU_SHARES_PER_WATT) = 0

\* The events of a name the store held before the removal of the tick, and
\* the number of them the removal deleted.
Available(name) ==
    BagCardinality(Matching(loc.db_before_consume, structure.name, name))

Deleted(name) ==
    Available(name) - BagCardinality(Matching(events_db, structure.name, name))

\* The event names of a resource with a counter above 0 in the tick.
Triggering(r) ==
    {name \in EventNames :
        /\ name[1] = r
        /\ IF name[2] = "up" THEN loc.reduced_events[r].up > 0
                             ELSE loc.reduced_events[r].down > 0}

\* C8 as stated: a rule that fires with its amount clamped to 0 writes no
\* request, rule.events_to_remove events of the triggering event name are
\* deleted all the same, and no request has amount 0.
C8_ZeroAmountRemovesAll ==
    Matched =>
        /\ \A i \in 1..Len(rules_db) :
              ClampedToZero(rules_db[i]) =>
                  /\ \A q \in TickRequests : q.rule # rules_db[i].name
                  /\ \E name \in Triggering(rules_db[i].resource) :
                        Deleted(name) >= rules_db[i].events_to_remove
        /\ \A q \in TickRequests : q.amount # 0

\* C8, amended: a rule that fires with its amount clamped to 0 writes no
\* request, and of the triggering event name rule.events_to_remove events
\* are deleted all the same, or all there are when there are fewer; no
\* request has amount 0.
C8_ZeroAmountRemoves ==
    Matched =>
        /\ \A i \in 1..Len(rules_db) :
              ClampedToZero(rules_db[i]) =>
                  /\ \A q \in TickRequests : q.rule # rules_db[i].name
                  /\ \E name \in Triggering(rules_db[i].resource) :
                        Deleted(name) >= Min2(rules_db[i].events_to_remove,
                                              Available(name))
        /\ \A q \in TickRequests \cup BagToSet(requests_db) : q.amount # 0

\* A rule clamped to 0 that asks for more events than the store holds.
C8_Witness ==
    /\ Matched
    /\ \E i \in 1..Len(rules_db) :
          /\ ClampedToZero(rules_db[i])
          /\ \E name \in Triggering(rules_db[i].resource) :
                /\ Available(name) < rules_db[i].events_to_remove
                /\ Deleted(name) = Available(name)
    /\ TickRequests = {}

\* The rule a request comes from.
RuleOf(q) == CHOOSE rule \in {rules_db[i] : i \in 1..Len(rules_db)} :
                 rule.name = q.rule

\* C9: a request of an energy rule has resource cpu and for_energy set; a
\* request of a rule of another resource has the rule's resource and no
\* for_energy.
C9_EnergyRequestsTargetCpu ==
    \A q \in TickRequests \cup BagToSet(requests_db) :
        IF RuleOf(q).resource = "energy"
          THEN q.resource = "cpu" /\ q.for_energy
          ELSE q.resource = RuleOf(q).resource /\ ~q.for_energy

\* The store holds a request of an energy rule and one of a cpu rule.
C9_Witness ==
    /\ \E q \in BagToSet(requests_db) : RuleOf(q).resource = "energy"
    /\ \E q \in BagToSet(requests_db) : RuleOf(q).resource = "cpu"

\* C10 as stated: the amount of a request of an energy rule is clamped by
\* the cpu values: cpu.min <= cpu.current + amount <= cpu.max.
C10_EnergyClampedOnCpu ==
    Matched =>
        \A q \in TickRequests :
            (q.for_energy /\ structure.resources["cpu"].current # NOT_AVAILABLE)
                => LET cpu == structure.resources["cpu"]
                   IN  /\ cpu.min <= cpu.current + q.amount
                       /\ cpu.current + q.amount <= cpu.max

\* C10, amended: the amount of a request of an energy rule is not clamped:
\* it is int() of the amount of the rule's policy after the rounding guard,
\* whatever the cpu values are.
C10_EnergyNotClamped ==
    Matched =>
        \A q \in TickRequests :
            q.for_energy =>
                q.amount = IntTrunc(RoundingGuard(PolicyAmount(
                               TickStructure, RuleOf(q), loc.limits,
                               loc.usages, config.CPU_SHARES_PER_WATT)))

\* A request of an energy rule that takes cpu over its maximum.
C10_Witness ==
    /\ Matched
    /\ \E q \in TickRequests :
          /\ q.for_energy
          /\ structure.resources["cpu"].current # NOT_AVAILABLE
          /\ structure.resources["cpu"].current + q.amount
                > structure.resources["cpu"].max

\* Every derived usage metric of the tick is the sentinel.
NoUsageData(usages) ==
    usages # <<>> /\ \A m \in DOMAIN usages : usages[m] = NoData

\* C11: a tick in which every derived usage metric is the NO_DATA sentinel
\* ends at once: the step that reads the usages and every later step of the
\* tick leave the limits, events and requests of the store as they were.
C11_NoDataSkips ==
    [][/\ (pc = "start" /\ NoUsageData(loc'.usages))
            => (pc' = "sleep" /\ UNCHANGED store)
       /\ (pc = "sleep" /\ NoUsageData(loc.usages)) => UNCHANGED store]_vars

\* A tick without usage data, with events of the structure in the store
\* and limits that the repair step would change.
C11_Witness ==
    /\ pc = "sleep"
    /\ NoUsageData(loc.usages)
    /\ loc.ops = <<"read_usages">>
    /\ events_db # EmptyBag

\* The place of a store operation in the pipeline of a tick.
OpRank(op) ==
    CASE op = "read_usages" -> 1
      [] op = "read_limits" -> 2
      [] op = "write_limits" -> 3
      [] op = "write_events" -> 4
      [] op = "read_events" -> 5
      [] op = "delete_stale" -> 6
      [] op = "delete_consumed" -> 7
      [] op = "write_requests" -> 8

\* C15: the store operations of a tick of the structure happen in the order
\* read usages, read limits, write limits, write new events, read all
\* events, delete stale events, delete consumed events, write requests;
\* the events are read after the new events of the tick were written and
\* the requests are written after the consumed events were deleted.
C15_OperationsInOrder ==
    /\ \A i, j \in 1..Len(loc.ops) :
          i < j => OpRank(loc.ops[i]) < OpRank(loc.ops[j])
    /\ loc.written_requests # <<>> =>
          /\ events_db = loc.db_before_consume (-) loc.consumed
          /\ \E i \in 1..Len(loc.ops) : loc.ops[i] = "delete_consumed"
    /\ pc = "age" =>
          \A i \in 1..Len(loc.triggered_events) :
              \E k \in 1..Len(loc.all_events) :
                  loc.all_events[k] = loc.triggered_events[i]

\* A tick that made all eight operations.
C15_Witness ==
    loc.ops = <<"read_usages", "read_limits", "write_limits", "write_events",
                "read_events", "delete_stale", "delete_consumed",
                "write_requests">>

\* ------------------------------------------------------- the store facade
\* __MAX_UPDATE_TRIES of CouchDBServer.
MAX_UPDATE_TRIES == 5

\* The write attempts of one update call the model follows.
MaxPosts == 8

\* The revisions the stored document goes through.
MaxRev == 7

\* time_backoff_seconds, the default of __resilient_update_doc.
TimeBackoffSeconds == 2

\* A test that allows one retry more.
MayRetryConflictInclusive(previous_tries) ==
    0 <= previous_tries /\ previous_tries <= MAX_UPDATE_TRIES

\* __resilient_update_doc, the test of the 409 branch:
\* 0 <= previous_tries < self.__MAX_UPDATE_TRIES.
MayRetryConflict(previous_tries) ==
    0 <= previous_tries /\ previous_tries < MAX_UPDATE_TRIES

\* The limits documents a caller updates.
LimitDocs ==
    {[cpu |-> Limits(l, l + 1, 1), energy |-> NoLimits] : l \in {2, 3}}

\* The limits document another writer leaves.
OtherDoc == [cpu |-> Limits(0, 1, 1), energy |-> NoLimits]

\* The collection without the document.
NoDoc == [cpu |-> NoLimits, energy |-> NoLimits]

\* The lists of events and of requests a caller adds.
EventDocs ==
    {<<generate_event(<<"cpu", "up">>, "node0", "cpu", [up |-> 1, down |-> 0], 0)>>,
     <<generate_event(<<"cpu", "up">>, "node0", "cpu", [up |-> 1, down |-> 0], 0),
       generate_event(<<"cpu", "up">>, "node0", "cpu", [up |-> 1, down |-> 0], 0)>>,
     <<generate_event(<<"cpu", "up">>, "node0", "cpu", [up |-> 1, down |-> 0], 0),
       generate_event(<<"cpu", "down">>, "node0", "cpu", [up |-> 0, down |-> 1], Hz)>>}

RequestDocs ==
    {<<[type |-> "request", resource |-> "cpu", amount |-> a,
        structure |-> "node0", action |-> "CpuRescaleUp", timestamp |-> 0]>> :
        a \in {1, 2}}

\* __add_doc: a POST without _id, the store makes a new document of it.
add_doc(db, doc) == db (+) SetToBag({doc})

\* add_events and add_requests: __add_doc for each document of the list.
RECURSIVE add_docs(_, _)
add_docs(db, docs) ==
    IF docs = <<>> THEN db ELSE add_docs(add_doc(db, Head(docs)), Tail(docs))

add_events(db, events) == add_docs(db, events)

add_requests(db, reqs) == add_docs(db, reqs)

\* The status code the store answers to a POST of doc.
StoreStatus(doc) ==
    IF ~updb.exists THEN 404
    ELSE IF updb.present /\ doc.rev = updb.rev THEN 200
    ELSE 409

\* update_limit: the caller read the limits document, changed it and calls
\* __resilient_update_doc with previous_tries = 0.
CallUpdateLimit ==
    /\ upd.pc = "idle" /\ call.n = 0
    /\ updb.exists /\ updb.present
    /\ \E v \in LimitDocs :
          upd' = [UpdIdle EXCEPT !.pc = "post",
                                 !.doc = [rev |-> updb.rev, value |-> v]]
    /\ call' = [CallIdle EXCEPT !.op = "update_limit", !.n = 1]
    /\ UNCHANGED <<store, config, clock, pc, loc, updb, main, fan, peer>>

\* A store that merges the document posted into the one it holds: the
\* lower limit another writer left stays.
PostMerging ==
    /\ upd.pc = "post"
    /\ upd.posts < MaxPosts
    /\ \E status \in {StoreStatus(upd.doc), 500} :
          /\ upd' = [upd EXCEPT
                !.posts = @ + 1,
                !.status = status,
                !.conflicts = IF status = 409 THEN @ + 1 ELSE @,
                !.missing = IF status = 404 THEN @ + 1 ELSE @,
                !.pc = CASE status = 200 -> "ok"
                         [] status = 409 /\ MayRetryConflict(upd.previous_tries) -> "refetch"
                         [] status = 404 -> "backoff"
                         [] OTHER -> "raised",
                !.error = CASE status = 409 /\ ~MayRetryConflict(upd.previous_tries) -> "409"
                            [] status = 500 -> "500"
                            [] OTHER -> @]
          /\ IF status = 200
               THEN /\ limits_db' = [upd.doc.value EXCEPT
                                        !["cpu"].lower = limits_db["cpu"].lower]
                    /\ updb' = [updb EXCEPT !.rev = @ + 1]
               ELSE UNCHANGED <<limits_db, updb>>
    /\ UNCHANGED <<structure, rules_db, events_db, requests_db, config, clock,
                   pc, loc, call, main, fan, peer>>

\* __resilient_update_doc: requests.post and the branch on its status code.
Post ==
    /\ upd.pc = "post"
    /\ upd.posts < MaxPosts
    /\ \E status \in {StoreStatus(upd.doc), 500} :
          /\ upd' = [upd EXCEPT
                !.posts = @ + 1,
                !.status = status,
                !.conflicts = IF status = 409 THEN @ + 1 ELSE @,
                !.missing = IF status = 404 THEN @ + 1 ELSE @,
                !.pc = CASE status = 200 -> "ok"
                         [] status = 409 /\ MayRetryConflict(upd.previous_tries) -> "refetch"
                         [] status = 404 -> "backoff"
                         [] OTHER -> "raised",
                !.error = CASE status = 409 /\ ~MayRetryConflict(upd.previous_tries) -> "409"
                            [] status = 500 -> "500"
                            [] OTHER -> @]
          /\ IF status = 200
               THEN /\ limits_db' = upd.doc.value
                    /\ updb' = [updb EXCEPT !.rev = @ + 1]
               ELSE UNCHANGED <<limits_db, updb>>
    /\ UNCHANGED <<structure, rules_db, events_db, requests_db, config, clock,
                   pc, loc, call, main, fan, peer>>

\* The 409 branch: find_documents_by_matches(...)[0], the new _rev, and the
\* call with previous_tries + 1.
Refetch ==
    /\ upd.pc = "refetch"
    /\ upd' = IF ~updb.exists
                THEN [upd EXCEPT !.pc = "raised", !.error = "404"]
              ELSE IF ~updb.present
                THEN [upd EXCEPT !.pc = "raised", !.error = "IndexError"]
              ELSE [upd EXCEPT !.pc = "post", !.doc.rev = updb.rev,
                               !.refetches = @ + 1,
                               !.previous_tries = @ + 1]
    /\ UNCHANGED <<store, config, clock, pc, loc, updb, call, main, fan, peer>>

\* The 404 branch: time.sleep(time_backoff_seconds) and the call with
\* previous_tries + 1.
Backoff ==
    /\ upd.pc = "backoff"
    /\ clock' = clock + TimeBackoffSeconds * Hz
    /\ upd' = [upd EXCEPT !.pc = "post", !.previous_tries = @ + 1]
    /\ UNCHANGED <<store, config, pc, loc, updb, call, main, fan, peer>>

\* Another process updates the document (or adds it again after the
\* collection was recreated).
OtherWrite ==
    /\ updb.exists /\ updb.rev < MaxRev
    /\ updb' = [updb EXCEPT !.rev = @ + 1, !.present = TRUE]
    /\ limits_db' = OtherDoc
    /\ call' = [call EXCEPT !.foreign = (call.n > 0)]
    /\ UNCHANGED <<structure, rules_db, events_db, requests_db, config, clock,
                   pc, loc, upd, main, fan, peer>>

\* Another process removes the collection: remove_database.
DropDatabase ==
    /\ updb.exists
    /\ updb' = [updb EXCEPT !.exists = FALSE, !.present = FALSE]
    /\ limits_db' = NoDoc
    /\ call' = [call EXCEPT !.foreign = (call.n > 0)]
    /\ UNCHANGED <<structure, rules_db, events_db, requests_db, config, clock,
                   pc, loc, upd, main, fan, peer>>

\* Another process makes the collection again: create_database.
CreateDatabase ==
    /\ ~updb.exists
    /\ updb' = [updb EXCEPT !.exists = TRUE]
    /\ UNCHANGED <<store, config, clock, pc, loc, upd, call, main, fan, peer>>

\* add_events, called by the caller with a list of events.
CallAddEvents ==
    /\ upd.pc = "idle" /\ call.n = 0
    /\ \E events \in EventDocs :
          /\ events_db' = add_events(events_db, events)
          /\ call' = [CallIdle EXCEPT !.op = "add_events", !.n = 1,
                                      !.docs = events,
                                      !.after_first = events_db']
    /\ UNCHANGED <<structure, limits_db, rules_db, requests_db, config, clock,
                   pc, loc, upd, updb, main, fan, peer>>

\* add_requests, called by the caller with a list of requests.
CallAddRequests ==
    /\ upd.pc = "idle" /\ call.n = 0
    /\ \E reqs \in RequestDocs :
          /\ requests_db' = add_requests(requests_db, reqs)
          /\ call' = [CallIdle EXCEPT !.op = "add_requests", !.n = 1,
                                      !.docs = reqs,
                                      !.after_first = requests_db']
    /\ UNCHANGED <<structure, limits_db, rules_db, events_db, config, clock,
                   pc, loc, upd, updb, main, fan, peer>>

\* The caller makes the same call again, with the same documents.
CallAgain ==
    /\ call.n = 1
    /\ \/ /\ call.op = "update_limit" /\ upd.pc = "ok"
          /\ upd' = [UpdIdle EXCEPT !.pc = "post", !.doc = upd.doc]
          /\ call' = [call EXCEPT !.n = 2, !.after_first = limits_db]
          /\ UNCHANGED store
       \/ /\ call.op = "add_events"
          /\ events_db' = add_events(events_db, call.docs)
          /\ call' = [call EXCEPT !.n = 2]
          /\ UNCHANGED <<structure, limits_db, rules_db, requests_db, upd>>
       \/ /\ call.op = "add_requests"
          /\ requests_db' = add_requests(requests_db, call.docs)
          /\ call' = [call EXCEPT !.n = 2]
          /\ UNCHANGED <<structure, limits_db, rules_db, events_db, upd>>
    /\ UNCHANGED <<config, clock, pc, loc, updb, main, fan, peer>>

NextFacade ==
    \/ CallUpdateLimit
    \/ Post
    \/ Refetch
    \/ Backoff
    \/ OtherWrite
    \/ DropDatabase
    \/ CreateDatabase
    \/ CallAddEvents
    \/ CallAddRequests
    \/ CallAgain

\* A deployment whose caller makes one facade write, and makes it again.
InitFacade ==
    /\ structure = Container(Resource(2, 5, 4))
    /\ limits_db = OtherDoc
    /\ rules_db = <<>>
    /\ config = Config(<<"cpu">>, 5, MaxClock)
    /\ Stores

\* ------------------------------------------------ properties of the facade
\* The update call received nothing but version conflicts so far.
OnlyConflicts == upd.posts > 0 /\ upd.conflicts = upd.posts

\* C12: an update whose every attempt is answered with a version conflict
\* refetches the revision and retries after each of the first 5 conflicts,
\* makes 6 write attempts and no more, and fails with the 6th conflict (the
\* refetch itself being answered); an update whose conflicts stop before that
\* succeeds with the first attempt that is not answered with a conflict.
C12_ConflictRetries ==
    /\ OnlyConflicts =>
          /\ upd.posts <= MAX_UPDATE_TRIES + 1
          /\ upd.pc = "post" => upd.refetches = upd.conflicts
          /\ upd.pc = "refetch" => upd.refetches = upd.conflicts - 1
          /\ upd.error = "409" <=> upd.posts = MAX_UPDATE_TRIES + 1
          /\ upd.error = "409" =>
                upd.pc = "raised" /\ upd.refetches = MAX_UPDATE_TRIES
    /\ (upd.missing = 0 /\ upd.status = 200) =>
          /\ upd.pc = "ok"
          /\ upd.posts = upd.conflicts + 1
          /\ upd.conflicts <= MAX_UPDATE_TRIES
          /\ upd.refetches = upd.conflicts

\* An update that failed with its 6th conflict, after 5 refetches.
C12_Witness ==
    /\ upd.pc = "raised" /\ upd.error = "409"
    /\ upd.conflicts = 6 /\ upd.posts = 6 /\ upd.refetches = 5

\* C13: an update whose every attempt is answered with 404 makes no write
\* attempt beyond the cap of 5 retries.
C13_MissingCapped ==
    (upd.posts > 0 /\ upd.missing = upd.posts)
        => upd.posts <= MAX_UPDATE_TRIES + 1

\* The documents of the collection a facade write is about.
StoreOf(op) ==
    CASE op = "add_events" -> events_db
      [] op = "add_requests" -> requests_db
      [] OTHER -> limits_db

\* C14: once a facade write was made a second time with the same documents,
\* no other process having written in between, the store holds the documents
\* it held after the first call.
C14_Idempotent ==
    (/\ call.n = 2
     /\ ~call.foreign
     /\ call.op = "update_limit" => upd.pc = "ok")
        => StoreOf(call.op) = call.after_first

\* ---------------------------------------------------------- the scheduler
\* The clock reading up to which the loop of guard is followed.
MaxGuardClock == 3

\* The threads of a tick: the structure node0 runs the pipeline above, the
\* structure node1 is followed from its start to its return only.
Node0Alive == pc \notin {"idle", "sleep"}

PeerAlive == peer.pc = "running"

FanAlive == fan.pc \notin {"idle", "done"}

Alive(name) == IF name = "node0" THEN Node0Alive ELSE PeerAlive

\* A loop that gives every structure a thread.
RunsInThreadAlways(s) == "name" \in DOMAIN s

\* guard_structures: the structure gets a thread of its own.
RunsInThread(s) == "guard_policy" \notin DOMAIN s \/ s.guard_policy = "serverless"

\* The document of the structure of that name; node1 is guarded and has no
\* guard_policy.
StructureNamed(name) ==
    IF name = "node0" THEN structure
    ELSE [name |-> "node1", subtype |-> structure.subtype, guard |-> TRUE]

\* The lists get_structures may return.
StructureLists == {<<>>, <<"node0", "node1">>, <<"node1", "node0">>}

\* The event node1's pipeline writes in a tick without an error.
PeerEvent(now) ==
    generate_event(<<"cpu", "up">>, "node1", "cpu", [up |-> 1, down |-> 0], now)

\* An iteration that lists and processes the structures whatever ACTIVE is.
LoadConfigAlwaysActive ==
    /\ main.pc = "load"
    /\ clock + config.WINDOW_TIMELAPSE * Hz <= MaxGuardClock
    /\ \E active \in BOOLEAN, structures \in StructureLists :
          /\ main' = [main EXCEPT
                !.pc = "sleeping", !.tick = @ + 1, !.active = active,
                !.ops = <<"get_service", "beat", "get_structures">>
                          \o (IF structures # <<>> THEN <<"start">> ELSE <<>>),
                !.wake = clock + config.WINDOW_TIMELAPSE * Hz,
                !.woke_at = 0, !.warned = FALSE,
                !.delay_start = 0, !.delay = 0, !.store_at_load = store]
          /\ fan' = IF structures # <<>>
                      THEN [FanIdle EXCEPT !.pc = "rules", !.structures = structures]
                      ELSE FanIdle
    /\ UNCHANGED <<store, config, clock, pc, loc, upd, updb, call, peer>>

\* guard, from the top of the loop to time.sleep: get_service, beat, the
\* configuration, and, if ACTIVE, get_structures and the start of the
\* thread of guard_structures.
LoadConfig ==
    /\ main.pc = "load"
    /\ clock + config.WINDOW_TIMELAPSE * Hz <= MaxGuardClock
    /\ \E active \in BOOLEAN, structures \in StructureLists :
          LET fans == active /\ structures # <<>>
          IN  /\ main' = [main EXCEPT
                    !.pc = "sleeping", !.tick = @ + 1, !.active = active,
                    !.ops = <<"get_service", "beat">>
                              \o (IF active THEN <<"get_structures">> ELSE <<>>)
                              \o (IF fans THEN <<"start">> ELSE <<>>),
                    !.wake = clock + config.WINDOW_TIMELAPSE * Hz,
                    !.woke_at = 0, !.warned = FALSE,
                !.delay_start = 0, !.delay = 0, !.store_at_load = store]
              /\ fan' = IF fans
                          THEN [FanIdle EXCEPT !.pc = "rules",
                                               !.structures = IF active THEN structures ELSE <<>>]
                          ELSE FanIdle
    /\ UNCHANGED <<store, config, clock, pc, loc, upd, updb, call, peer>>

\* A loop that goes on to the next iteration while the thread is alive.
WakeUpNoJoin ==
    /\ main.pc = "sleeping"
    /\ clock >= main.wake
    /\ main' = [main EXCEPT !.pc = "load", !.woke_at = clock,
                            !.warned = FanAlive,
                            !.delay_start = IF FanAlive THEN clock ELSE 0]
    /\ UNCHANGED <<store, config, clock, pc, loc, upd, updb, call, fan, peer>>

\* guard: time.sleep(window_difference) returns; if thread and
\* thread.is_alive(), the warning, and the loop goes to thread.join().
WakeUp ==
    /\ main.pc = "sleeping"
    /\ clock >= main.wake
    /\ main' = IF FanAlive
                 THEN [main EXCEPT !.pc = "joining", !.woke_at = clock,
                                   !.warned = TRUE, !.delay_start = clock]
                 ELSE [main EXCEPT !.pc = "load", !.woke_at = clock]
    /\ UNCHANGED <<store, config, clock, pc, loc, upd, updb, call, fan, peer>>

\* guard: thread.join() returns, and the delay is logged.
Join ==
    /\ main.pc = "joining"
    /\ ~FanAlive
    /\ main' = [main EXCEPT !.pc = "load", !.delay = clock - main.delay_start]
    /\ UNCHANGED <<store, config, clock, pc, loc, upd, updb, call, fan, peer>>

\* guard_structures: get_rules.
FanGetRules ==
    /\ fan.pc = "rules"
    /\ fan' = [fan EXCEPT !.pc = "loop", !.rules_read = TRUE]
    /\ UNCHANGED <<store, config, clock, pc, loc, upd, updb, call, main, peer>>

\* The start of serverless for the structure of that name, in a thread or
\* in the thread of guard_structures.
StartServerless(name) ==
    IF name = "node0"
      THEN pc' = "start" /\ loc' = LocInit /\ peer' = peer
      ELSE peer' = [pc |-> "running", outcome |-> ""] /\ pc' = pc /\ loc' = loc

\* guard_structures: one iteration of the for loop. A structure without
\* guard_policy, or with "serverless", gets a thread; for any other the
\* loop calls serverless itself.
FanStep ==
    /\ fan.pc = "loop"
    /\ IF fan.i > Len(fan.structures)
         THEN /\ fan' = [fan EXCEPT !.pc = "join"]
              /\ UNCHANGED <<pc, loc, peer>>
         ELSE LET name == fan.structures[fan.i]
              IN  /\ StartServerless(name)
                  /\ fan' = IF RunsInThread(StructureNamed(name))
                              THEN [fan EXCEPT !.i = @ + 1,
                                               !.threads = @ \cup {name}]
                              ELSE [fan EXCEPT !.pc = "inline"]
    /\ UNCHANGED <<store, config, clock, upd, updb, call, main>>

\* The structures of that set in whose pipeline an exception was raised,
\* caught by serverless and logged.
Raised(names) ==
    {name \in names : IF name = "node0" THEN loc.error # ""
                      ELSE peer.outcome = "error"}

\* The call of serverless for the structures of that set is over: its
\* local values are gone.
Returned(names) ==
    /\ IF "node0" \in names
         THEN pc' = "idle" /\ loc' = LocInit
         ELSE UNCHANGED <<pc, loc>>
    /\ peer' = IF "node1" \in names THEN PeerIdle ELSE peer

\* guard_structures: the call of serverless returns.
FanInlineReturn ==
    /\ fan.pc = "inline"
    /\ ~Alive(fan.structures[fan.i])
    /\ fan' = [fan EXCEPT !.pc = "loop", !.i = @ + 1,
                          !.finished = @ \cup {fan.structures[fan.i]},
                          !.raised = @ \cup Raised({fan.structures[fan.i]})]
    /\ Returned({fan.structures[fan.i]})
    /\ UNCHANGED <<store, config, clock, upd, updb, call, main>>

\* guard_structures: process.join() for every thread started.
FanJoin ==
    /\ fan.pc = "join"
    /\ \A name \in fan.threads : ~Alive(name)
    /\ fan' = [fan EXCEPT !.pc = "done", !.done_at = clock,
                          !.finished = @ \cup fan.threads,
                          !.raised = @ \cup Raised(fan.threads)]
    /\ Returned(fan.threads)
    /\ UNCHANGED <<store, config, clock, upd, updb, call, main>>

\* A thread whose exception ends the thread of guard_structures as well.
PeerFinishUncaught ==
    /\ peer.pc = "running"
    /\ \E outcome \in {"ok", "error"} :
          /\ peer' = [pc |-> "done", outcome |-> outcome]
          /\ events_db' = IF outcome = "ok"
                            THEN add_doc(events_db, PeerEvent(clock))
                            ELSE events_db
          /\ fan' = IF outcome = "error" /\ ~Node0Alive
                      THEN [fan EXCEPT !.pc = "done"]
                      ELSE fan
    /\ UNCHANGED <<structure, limits_db, rules_db, requests_db, config, clock,
                   pc, loc, upd, updb, call, main>>

\* serverless for node1, to its return: the pipeline wrote an event, or an
\* exception was raised in it, caught and logged.
PeerFinish ==
    /\ peer.pc = "running"
    /\ \E outcome \in {"ok", "error"} :
          /\ peer' = [pc |-> "done", outcome |-> outcome]
          /\ events_db' = IF outcome = "ok"
                            THEN add_doc(events_db, PeerEvent(clock))
                            ELSE events_db
    /\ UNCHANGED <<structure, limits_db, rules_db, requests_db, config, clock,
                   pc, loc, upd, updb, call, main, fan>>

\* Time passes, to the end of the sleep of the loop and, while the loop
\* waits for the thread, beyond it.
Tick ==
    /\ main.pc \in {"sleeping", "joining"}
    /\ clock < MaxGuardClock
    /\ clock' = clock + 1
    /\ UNCHANGED <<store, config, pc, loc, upd, updb, call, main, fan, peer>>

\* The steps of serverless for node0, but for match_rules_and_events.
Pipeline ==
    \/ GetUsages
    \/ GetLimits
    \/ AdjustState
    \/ GenEvents
    \/ GetEvents
    \/ AgeEvents
    \/ AddRequests

NextGuard ==
    \/ LoadConfig
    \/ WakeUp
    \/ Join
    \/ FanGetRules
    \/ FanStep
    \/ FanInlineReturn
    \/ FanJoin
    \/ PeerFinish
    \/ Tick
    \/ GetUsages
    \/ GetLimits
    \/ AdjustState
    \/ GenEvents
    \/ GetEvents
    \/ AgeEvents
    \/ MatchRules
    \/ AddRequests

\* The documents of node0 the scheduler may list: guarded, with the flag
\* false, without the flag, and with a guard_policy.
GuardVariants(c) ==
    {c,
     [c EXCEPT !.guard = FALSE],
     [f \in DOMAIN c \ {"guard"} |-> c[f]],
     c @@ [guard_policy |-> "serverless"],
     c @@ [guard_policy |-> "fixed"]}

\* The rules, the configuration and the rest of the state as the loop starts.
GuardStores ==
    /\ rules_db = CpuRules(1, 2 * Den, "amount", -1, "amount", 1)
    /\ config = Config(<<"cpu">>, 5, MaxClock + MaxDrift + 1)
    /\ events_db = EmptyBag
    /\ requests_db = EmptyBag
    /\ clock = 0
    /\ pc = "idle"
    /\ loc = LocInit
    /\ upd = UpdIdle
    /\ updb = UpdbInit
    /\ call = CallIdle
    /\ main = MainIdle
    /\ fan = FanIdle
    /\ peer = PeerIdle

\* A deployment of two containers under the loop of guard.
InitGuard ==
    /\ \/ /\ structure \in GuardVariants(Container(Resource(2, 5, 4)))
          /\ limits_db = [cpu |-> Limits(2, 3, 1), energy |-> NoLimits]
       \/ /\ structure = Container(Resource(2, 5, 4))
          /\ limits_db = [cpu |-> Limits(2, 3, NOT_AVAILABLE), energy |-> NoLimits]
    /\ GuardStores

\* A deployment in which the limits of node0 make its pipeline raise an
\* exception, and one in which they do not.
InitGuardRaise ==
    /\ \/ /\ structure = Container(Resource(2, 5, 4))
          /\ limits_db = [cpu |-> Limits(2, 3, NOT_AVAILABLE), energy |-> NoLimits]
       \/ /\ structure = Container(Resource(2, 5, 4)) @@ [guard_policy |-> "fixed"]
          /\ limits_db = [cpu |-> Limits(2, 3, 1), energy |-> NoLimits]
    /\ GuardStores

\* ---------------------------------------------- properties of the scheduler
NoTaskAlive == ~Node0Alive /\ ~PeerAlive

\* C16: the loop is at its top, about to load the configuration of a tick,
\* only when the fan-out of the previous tick and all its threads are over, and
\* a thread runs only inside the one fan-out; when the fan-out is alive as the
\* sleep of WINDOW_TIMELAPSE returns, the loop warns and waits for it, and
\* the delay it logs covers the time the fan-out took beyond that.
C16_TicksDoNotOverlap ==
    /\ main.pc = "load" => ~FanAlive /\ NoTaskAlive
    /\ ~FanAlive => NoTaskAlive
    /\ main.pc = "joining" => main.warned /\ clock >= main.wake
    /\ (main.pc = "load" /\ main.tick > 0 /\ fan.pc = "done") =>
          /\ main.woke_at >= main.wake
          /\ ~main.warned => fan.done_at <= main.woke_at
          /\ main.warned =>
                /\ fan.done_at >= main.woke_at
                /\ main.delay >= fan.done_at - main.woke_at

\* A tick whose fan-out overran the window: the loop warned, waited, and
\* logged a delay.
C16_Witness ==
    /\ main.pc = "load" /\ main.tick = 1 /\ main.warned /\ main.delay >= 1
    /\ fan.finished = {"node0", "node1"}

\* The call of serverless for the structure of that name is over.
Processed(name) ==
    \/ name \in fan.finished
    \/ name = "node0" /\ pc = "sleep"
    \/ name = "node1" /\ peer.pc = "done"

\* C17: once an exception was raised in the pipeline of a structure, the
\* other structure of the tick is still processed to its end, and the loop
\* gets back to its top, from where the next tick starts.
C17_ErrorIsolated ==
    /\ (loc.error # "") ~> Processed("node1")
    /\ (peer.outcome = "error") ~> Processed("node0")
    /\ (loc.error # "" \/ peer.outcome = "error")
          ~> (main.pc = "load" /\ main.tick > 0 /\ fan.pc = "done")

\* A tick in which both pipelines raised an exception, and which is over.
C17_Witness ==
    /\ main.pc = "load" /\ main.tick = 1 /\ fan.pc = "done"
    /\ fan.raised = {"node0", "node1"}
    /\ fan.finished = {"node0", "node1"}

\* The documents of the collection that are about the structure.
DocsOf(db, name) == {d \in BagToSet(db) : d.structure = name}

\* The document of node0 has no guard flag, or a false one.
GuardFalseOrAbsent == "guard" \notin DOMAIN structure \/ ~structure.guard

\* C18: for a structure whose guard flag is false or absent, serverless
\* returns at once: no usages are queried, no limits, events or requests are
\* read, and the store holds no event or request of the structure and the
\* limits it held when the tick began.
C18_UnguardedSkipped ==
    GuardFalseOrAbsent =>
        /\ pc \in {"idle", "start", "sleep"}
        /\ loc.ops = <<>>
        /\ loc.usages = <<>>
        /\ DocsOf(events_db, structure.name) = {}
        /\ DocsOf(requests_db, structure.name) = {}
        /\ main.tick > 0 => limits_db = main.store_at_load[2]

\* serverless was called for a structure without the flag and returned,
\* while the other structure of the tick was processed.
C18_Witness ==
    /\ "guard" \notin DOMAIN structure
    /\ pc = "sleep"
    /\ peer.pc = "done" /\ peer.outcome = "ok"

\* The document of node0 has a guard_policy, and it is not serverless.
OtherPolicy ==
    "guard_policy" \in DOMAIN structure /\ structure.guard_policy # "serverless"

\* C19 as stated: the pipeline of a structure with another guard_policy is
\* never run, and nothing is written for it.
C19_PolicySkipped ==
    OtherPolicy =>
        /\ pc = "idle"
        /\ loc.ops = <<>>
        /\ DocsOf(events_db, structure.name) = {}
        /\ DocsOf(requests_db, structure.name) = {}

\* C19, amended: a structure with another guard_policy gets no thread;
\* guard_structures calls serverless for it itself, and goes on to the next
\* structure only when the call has returned.
C19_PolicyRunsInline ==
    OtherPolicy =>
        /\ "node0" \notin fan.threads
        /\ pc # "idle" => /\ fan.pc = "inline"
                          /\ fan.structures[fan.i] = "node0"
        /\ (fan.pc = "loop" /\ fan.i > 1 /\ fan.structures[fan.i - 1] = "node0")
              => "node0" \in fan.finished

\* The pipeline of a structure with guard_policy "fixed" wrote its limits,
\* an event and a request, in the thread of guard_structures.
C19_Witness ==
    /\ OtherPolicy
    /\ fan.pc = "inline"
    /\ pc = "sleep"
    /\ loc.wrote_limits
    /\ loc.written_requests # <<>>
    /\ DocsOf(requests_db, structure.name) # {}

\* C20: in a tick whose configuration has ACTIVE false, the loop reads the
\* service and writes the heartbeat and nothing else: no structure is
\* listed, no thread is started, and the store stays as it was.
C20_InactiveTick ==
    (main.tick > 0 /\ ~main.active) =>
        /\ main.ops = <<"get_service", "beat">>
        /\ fan = FanIdle
        /\ pc = "idle" /\ peer = PeerIdle
        /\ store = main.store_at_load

\* An inactive tick that is over.
C20_Witness ==
    /\ main.tick = 1 /\ ~main.active
    /\ main.pc = "load" /\ clock >= main.wake
    /\ main.ops = <<"get_service", "beat">>

\* ------------------------------------------------------ properties, C21 on
\* The rules of the tick that went through the amount policy.
FiredRules == {rules_db[i] : i \in {j \in 1..Len(rules_db) :
                                      rules_db[j].name \in loc.fired}}

\* The amount the policy of a fired rule gave, before the rounding guard.
FiredPolicyAmount(rule) ==
    PolicyAmount([structure EXCEPT !.resources = loc.resources], rule,
                 loc.limits, loc.usages, config.CPU_SHARES_PER_WATT)

\* A whole amount of one unit with the sign of p, clamped as the amount of
\* the rule is.
UnitClamped(rule, p) ==
    LET unit == IF p < 0 THEN -1 * Den ELSE 1 * Den
        r    == rule.resource
    IN  IF r \notin NON_ADJUSTABLE_RESOURCES
          THEN adjust_amount(unit, loc.resources[r], loc.limits[r])
          ELSE unit

Small(p) == p # 0 /\ -1 * Den < p /\ p < 1 * Den

\* C21: a policy amount that is not zero and is between -1 and 1 goes to
\* the clamp as -1 when negative and as +1 when positive, and no request of
\* the tick has the amount 0: the request of such a rule has the clamped
\* unit as its amount, and there is none when the clamp leaves 0.
C21_RoundingKeepsSign ==
    Matched =>
        /\ \A q \in TickRequests : q.amount # 0
        /\ \A rule \in FiredRules :
              LET p == FiredPolicyAmount(rule)
                  d == UnitClamped(rule, p)
              IN  Small(p) =>
                    \A q \in TickRequests :
                        q.rule = rule.name => d # 0 /\ q.amount * Den = d
        /\ \A rule \in FiredRules :
              LET p == FiredPolicyAmount(rule)
                  d == UnitClamped(rule, p)
              IN  (Small(p) /\ d # 0) =>
                    \E q \in TickRequests : q.rule = rule.name

\* Half a unit down becomes a request of one unit down.
C21_Witness ==
    /\ Matched
    /\ \E rule \in FiredRules :
          /\ FiredPolicyAmount(rule) < 0
          /\ Small(FiredPolicyAmount(rule))
          /\ \E q \in TickRequests : q.rule = rule.name /\ q.amount = -1

\* ------------------------------------------------- the event operations
\* The lengths of the event lists and the timestamps of the events the
\* event operations are applied to.
MaxLen == 2
MaxStamp == 2

\* get_all_database_docs: the documents of B in the store's order, which is
\* any order.
RECURSIVE Orders(_)
Orders(B) ==
    IF BagToSet(B) = {} THEN {<<>>}
    ELSE UNION {{<<e>> \o s : s \in Orders(B (-) SetToBag({e}))} :
                   e \in BagToSet(B)}

\* A scan that deletes while num_deleted <= event_num.
RECURSIVE DeleteScanInclusive(_, _, _, _, _)
DeleteScanInclusive(events, structure_name, event_name, event_num, num_deleted) ==
    IF events = <<>> THEN <<>>
    ELSE LET event == Head(events)
         IN  IF /\ event.structure = structure_name
                /\ event.name = event_name
                /\ num_deleted <= event_num
               THEN <<event>> \o DeleteScanInclusive(Tail(events),
                        structure_name, event_name, event_num, num_deleted + 1)
               ELSE DeleteScanInclusive(Tail(events), structure_name,
                        event_name, event_num, num_deleted)

delete_num_events_inclusive(events, structure_name, event_name, event_num) ==
    DeleteScanInclusive(events, structure_name, event_name, event_num, 0)

\* The loop of delete_num_events_by_structure from a document on: the
\* documents it deletes, in order.
RECURSIVE DeleteScan(_, _, _, _, _)
DeleteScan(events, structure_name, event_name, event_num, num_deleted) ==
    IF events = <<>> THEN <<>>
    ELSE LET event == Head(events)
         IN  IF /\ event.structure = structure_name
                /\ event.name = event_name
                /\ num_deleted < event_num
               THEN <<event>> \o DeleteScan(Tail(events), structure_name,
                        event_name, event_num, num_deleted + 1)
               ELSE DeleteScan(Tail(events), structure_name, event_name,
                        event_num, num_deleted)

\* delete_num_events_by_structure on the list of all the documents of the
\* events collection: the documents deleted.
delete_num_events_by_structure(events, structure_name, event_name, event_num) ==
    DeleteScan(events, structure_name, event_name, event_num, 0)

\* An aging step that classifies the events and deletes none.
AgingStepKeepingStale(db, structure_name, r, event_timeout) ==
    LET sorted == sort_events(r.events, r.times, event_timeout)
    IN  [valid |-> sorted.valid, invalid |-> sorted.invalid, db |-> db]

\* The aging step of process_serverless_structure on the store db, r being
\* the list get_events returned with the clock readings of sort_events:
\* the two lists and the store after delete_events(old_events).
AgingStep(db, structure_name, r, event_timeout) ==
    LET sorted == sort_events(r.events, r.times, event_timeout)
    IN  [valid |-> sorted.valid, invalid |-> sorted.invalid,
         db |-> db (-) SeqToBag(sorted.invalid)]

\* The event documents of the lists that are reduced: one or both
\* directions counted, for either resource.
ReducePool ==
    {generate_event(<<r, "up">>, "node0", r, [up |-> 1, down |-> 0], 0) :
        r \in Resources}
    \cup {generate_event(<<"cpu", "down">>, "node0", "cpu", a, 0) :
            a \in {[up |-> 0, down |-> 1], [up |-> 2, down |-> 1]}}

\* The event documents of the store that is aged: events of the structure
\* of any age, and one of another structure.
AgePool ==
    {generate_event(<<"cpu", "up">>, "node0", "cpu", [up |-> 1, down |-> 0],
                    ts * Hz) : ts \in 0..MaxStamp}
    \cup {generate_event(<<"cpu", "up">>, "node1", "cpu",
                         [up |-> 1, down |-> 0], 0)}

\* The event documents of the store events are deleted from: two names for
\* the structure, and the same names for another structure.
DeletePool ==
    {generate_event(<<"cpu", d>>, s, "cpu",
                    [up |-> IF d = "up" THEN 1 ELSE 0,
                     down |-> IF d = "down" THEN 1 ELSE 0], 0) :
        d \in {"up", "down"}, s \in {"node0", "node1"}}

ListsUpTo(pool, n) == UNION {[1..k -> pool] : k \in 0..n}

BagsUpTo(pool, n) == {SeqToBag(s) : s \in ListsUpTo(pool, n)}

EventStores ==
    /\ structure = Container(Resource(2, 5, 4))
    /\ limits_db = [cpu |-> Limits(2, 3, 1), energy |-> NoLimits]
    /\ rules_db = CpuRules(1, 2 * Den, "amount", -1, "amount", 1)
    /\ config = Config(<<"cpu">>, 5, MaxClock)
    /\ requests_db = EmptyBag
    /\ upd = UpdIdle
    /\ updb = UpdbInit
    /\ call = CallIdle
    /\ main = MainIdle
    /\ fan = FanIdle
    /\ peer = PeerIdle

\* Two lists of events to reduce.
InitReduce ==
    /\ EventStores
    /\ events_db = EmptyBag
    /\ clock = 0
    /\ pc = "reduce"
    /\ \E A \in ListsUpTo(ReducePool, MaxLen), B \in ListsUpTo(ReducePool, MaxLen) :
          loc = [A |-> A, B |-> B]

\* A store of events to age, at any time.
InitAge ==
    /\ EventStores
    /\ events_db \in BagsUpTo(AgePool, MaxLen)
    /\ clock \in 0..MaxClock
    /\ pc = "age_first"
    /\ loc = [none |-> 0]

\* A store of events to delete some from.
InitDelete ==
    /\ EventStores
    /\ events_db \in BagsUpTo(DeletePool, MaxLen + 1)
    /\ clock = 0
    /\ pc = "delete"
    /\ loc = [none |-> 0]

InitEvents == InitReduce \/ InitAge \/ InitDelete

\* reduce_structure_events applied to A, to B and to A followed by B.
ReduceLists ==
    /\ pc = "reduce"
    /\ loc' = [A |-> loc.A, B |-> loc.B,
               of_A |-> reduce_structure_events(loc.A), of_B |-> reduce_structure_events(loc.B),
               of_AB |-> reduce_structure_events(loc.A \o loc.B)]
    /\ pc' = "reduced"
    /\ UNCHANGED <<store, config, clock, others>>

\* The aging step, run once.
AgeFirst ==
    /\ pc = "age_first"
    /\ \E r \in Readings(EventsOf(events_db, structure.name), clock, clock + MaxDrift) :
          LET step == AgingStep(events_db, structure.name, r,
                                config.EVENT_TIMEOUT)
          IN  /\ events_db' = step.db
              /\ clock' = IF r.times = <<>> THEN clock
                          ELSE r.times[Len(r.times)]
              /\ loc' = [db_before |-> events_db,
                         first_reading |-> clock,
                         valid1 |-> SeqToBag(step.valid),
                         invalid1 |-> SeqToBag(step.invalid)]
    /\ pc' = "age_second"
    /\ UNCHANGED <<structure, limits_db, rules_db, requests_db, config, others>>

\* The aging step, run a second time on the events that remain.
AgeSecond ==
    /\ pc = "age_second"
    /\ \E r \in Readings(EventsOf(events_db, structure.name), clock, clock + MaxDrift) :
          LET step == AgingStep(events_db, structure.name, r,
                                config.EVENT_TIMEOUT)
          IN  /\ events_db' = step.db
              /\ clock' = IF r.times = <<>> THEN clock
                          ELSE r.times[Len(r.times)]
              /\ loc' = [db_before |-> loc.db_before,
                         first_reading |-> loc.first_reading,
                         valid1 |-> loc.valid1,
                         invalid1 |-> loc.invalid1,
                         db_between |-> events_db,
                         valid2 |-> SeqToBag(step.valid),
                         invalid2 |-> SeqToBag(step.invalid)]
    /\ pc' = "aged_twice"
    /\ UNCHANGED <<structure, limits_db, rules_db, requests_db, config, others>>

\* delete_num_events_by_structure(structure, event_name, event_num).
DeleteNum ==
    /\ pc = "delete"
    /\ \E event_name \in {<<"cpu", "up">>, <<"cpu", "down">>}, event_num \in 0..MaxLen, events \in Orders(events_db) :
          LET deleted == delete_num_events_by_structure(events,
                             structure.name, event_name, event_num)
          IN  /\ events_db' = events_db (-) SeqToBag(deleted)
              /\ loc' = [db_before |-> events_db, event_name |-> event_name,
                         event_num |-> event_num]
    /\ pc' = "deleted"
    /\ UNCHANGED <<structure, limits_db, rules_db, requests_db, config, clock, others>>

NextEvents ==
    \/ ReduceLists
    \/ AgeFirst
    \/ AgeSecond
    \/ DeleteNum

\* C22: for any two event lists A and B, the reduction of A followed by B
\* has, for each resource and each direction, the sum of the counters of
\* the reduction of A and of the reduction of B, a resource that is in
\* neither reduction being in none, and one missing on one side counting
\* as 0 there.
C22_ReduceAdditive ==
    pc = "reduced" =>
        \A r \in Resources :
            LET a  == loc.of_A[r]
                b  == loc.of_B[r]
                ab == loc.of_AB[r]
            IN  /\ ab.present = (a.present \/ b.present)
                /\ ab.up = (IF a.present THEN a.up ELSE 0)
                             + (IF b.present THEN b.up ELSE 0)
                /\ ab.down = (IF a.present THEN a.down ELSE 0)
                               + (IF b.present THEN b.down ELSE 0)

\* Two lists that share a resource, one of them with a resource the other
\* does not have.
C22_Witness ==
    /\ pc = "reduced"
    /\ Len(loc.A) = MaxLen /\ Len(loc.B) = MaxLen
    /\ loc.of_A["cpu"].present /\ loc.of_B["cpu"].present
    /\ loc.of_A["energy"].present /\ ~loc.of_B["energy"].present
    /\ loc.of_AB["cpu"].up >= 3 /\ loc.of_AB["cpu"].down >= 2

\* C23 as stated: a second run of the aging step on the events that remain
\* gives the valid set of the first run and deletes nothing.
C23_AgingIdempotent ==
    pc = "aged_twice" =>
        /\ loc.valid2 = loc.valid1
        /\ loc.invalid2 = EmptyBag

\* C23, amended: the first run leaves in the store the events it found
\* valid; a second run classifies exactly those, deletes of them only
\* events that are stale at its own clock readings, and when the clock has
\* not advanced since the first run began it gives the same valid set and
\* deletes nothing.
C23_AgingIdempotentAtSameClock ==
    pc = "aged_twice" =>
        /\ EventsOf(loc.db_between, structure.name) = loc.valid1
        /\ loc.valid2 (+) loc.invalid2 = loc.valid1
        /\ \A e \in BagToSet(loc.invalid2) :
              e.timestamp * Hz < clock - config.EVENT_TIMEOUT * Hz
        /\ \A e \in BagToSet(loc.valid2) :
              e.timestamp * Hz >= loc.first_reading - config.EVENT_TIMEOUT * Hz
        /\ clock = loc.first_reading =>
              /\ loc.valid2 = loc.valid1
              /\ loc.invalid2 = EmptyBag

\* Two runs at one clock reading, the first of which deleted an event and
\* kept another.
C23_Witness ==
    /\ pc = "aged_twice"
    /\ clock = loc.first_reading
    /\ loc.invalid1 # EmptyBag
    /\ loc.valid1 # EmptyBag
    /\ loc.valid2 = loc.valid1

\* ------------------------------------------ the request step on its own
\* The usage of cpu in the states the request step is run from, in 1 / Den.
MaxUsage == 6

\* The local values of the pipeline when match_rules_and_events is
\* reached: the usages read, the limits after adjust_container_state, the
\* resources with the usages merged, and the events that are not stale.
LocAtMatch(s, limits, usages, events) ==
    [LocInit EXCEPT !.usages = usages,
                    !.limits = limits,
                    !.resources = MergeUsages(s.resources, usages, {"cpu"}),
                    !.filtered_events = events,
                    !.ops = <<"read_usages">>]

\* The events of n ticks with the same usage, none of them stale.
RECURSIVE EventsOfTicks(_, _, _, _, _)
EventsOfTicks(s, rules, limits, usages, n) ==
    IF n = 0 THEN <<>>
    ELSE match_usages_and_limits(s.name, rules, usages, limits, s.resources,
                                 {"cpu"}, 0).events
         \o EventsOfTicks(s, rules, limits, usages, n - 1)

\* A container in a state check_invalid_container_state accepts, with the
\* events of up to MaxLen ticks of one usage, when the rules are matched.
InitFit ==
    /\ \E c \in 3..5, b \in 1..2, l \in 0..4, u \in 0..(MaxUsage * Den), n \in 1..MaxLen :
          LET s      == Container(Resource(2, 5, c))
              limits == [cpu |-> Limits(l, c - b, b), energy |-> NoLimits]
              usages == [m \in GuardianMetrics("container") |->
                            IF m = "cpu" THEN u ELSE NoData]
              rules  == CpuRules(1, NOT_AVAILABLE, "fit_to_usage",
                                 NOT_AVAILABLE, "fit_to_usage", 1)
              events == EventsOfTicks(s, rules, limits, usages, n)
          IN  /\ check_invalid_container_state(s.resources, limits, "cpu") = "ok"
              /\ events # <<>>
              /\ structure = s
              /\ limits_db = limits
              /\ rules_db = rules
              /\ events_db = SeqToBag(events)
              /\ loc = LocAtMatch(s, limits, usages, events)
    /\ config = Config(<<"cpu">>, 5, MaxClock)
    /\ requests_db = EmptyBag
    /\ clock = 0
    /\ pc = "match"
    /\ upd = UpdIdle /\ updb = UpdbInit /\ call = CallIdle
    /\ main = MainIdle /\ fan = FanIdle /\ peer = PeerIdle

\* node0 of testEvents after three ticks with a cpu usage of 180, the rule
\* CpuRescaleUp asking for three events and fitting to the usage.
ScenarioStructure == Container(Resource(50, 200, 140))

InitScenario ==
    /\ LET s      == ScenarioStructure
           limits == [cpu |-> Limits(80, 120, 20), energy |-> NoLimits]
           usages == [m \in GuardianMetrics("container") |->
                         IF m = "cpu" THEN 180 * Den ELSE NoData]
           rules  == CpuRules(3, NOT_AVAILABLE, "fit_to_usage",
                              NOT_AVAILABLE, "fit_to_usage", 3)
           events == EventsOfTicks(s, rules, limits, usages, 3)
       IN  /\ structure = s
           /\ limits_db = limits
           /\ rules_db = rules
           /\ events_db = SeqToBag(events)
           /\ loc = LocAtMatch(s, limits, usages, events)
    /\ config = Config(<<"cpu">>, 5, MaxClock)
    /\ requests_db = EmptyBag
    /\ clock = 0
    /\ pc = "match"
    /\ upd = UpdIdle /\ updb = UpdbInit /\ call = CallIdle
    /\ main = MainIdle /\ fan = FanIdle /\ peer = PeerIdle

InitMatch == InitFit \/ InitScenario

\* The request step of process_serverless_structure.
NextMatch ==
    \/ MatchRules
    \/ AddRequests

\* The amount of the fit_to_usage policy for resource r of the tick:
\* (usage + boundary div 2 + boundary) - current.
FitAmount(r) ==
    loc.usages[r]
        + ((loc.limits[r].boundary \div 2) + loc.limits[r].boundary) * Den
        - loc.resources[r].current * Den

\* C24, the policy: for a fired rule with rescale_by = fit_to_usage the
\* amount before clamping is (usage + boundary div 2 + boundary) - current,
\* and when that would push current above max the request of the rule has
\* the amount max - current.
C24_FitPolicy ==
    Matched =>
        \A rule \in FiredRules :
            rule.rescale_by = "fit_to_usage" =>
                LET r   == rule.resource
                    res == loc.resources[r]
                IN  /\ FiredPolicyAmount(rule) = FitAmount(r)
                    /\ res.current * Den + FitAmount(r) > res.max * Den =>
                          \A q \in TickRequests :
                              q.rule = rule.name =>
                                  q.amount = res.max - res.current

\* C24, the scenario: with cpu min 50, max 200, current 140, limits lower
\* 80, upper 120, boundary 20 and usage 180 for 3 ticks there are exactly
\* 3 events, and one cpu request with amount 60 is written.
C24_Scenario ==
    (structure = ScenarioStructure /\ pc = "sleep") =>
        /\ BagCardinality(loc.db_before_consume) = 3
        /\ BagCardinality(requests_db) = 1
        /\ \A q \in BagToSet(requests_db) :
              q.resource = "cpu" /\ q.amount = 60 /\ q.structure = "node0"

\* C24: the policy and the scenario.
C24_FitToUsage == C24_FitPolicy /\ C24_Scenario

\* The documents that left the store in the call.
DeletedByCall == loc.db_before (-) events_db

\* C25: delete_num_events_by_structure(structure, event_name, n) deletes
\* exactly min(n, k) events, k being the number of stored events whose
\* structure and name both match, and every event it deletes has that
\* structure and that name.
C25_DeletesUpToNum ==
    pc = "deleted" =>
        LET k == BagCardinality(Matching(loc.db_before, structure.name,
                                         loc.event_name))
        IN  /\ events_db (+) DeletedByCall = loc.db_before
            /\ BagCardinality(DeletedByCall) = Min2(loc.event_num, k)
            /\ \A e \in BagToSet(DeletedByCall) :
                  e.structure = structure.name /\ e.name = loc.event_name

\* Fewer events asked for than match, in a store that also holds an event
\* of another structure with the same name.
C25_Witness ==
    /\ pc = "deleted"
    /\ loc.event_num = 1
    /\ BagCardinality(Matching(loc.db_before, structure.name,
                               loc.event_name)) = 2
    /\ \E e \in BagToSet(loc.db_before) :
          e.structure # structure.name /\ e.name = loc.event_name
    /\ BagCardinality(DeletedByCall) = 1

\* The write attempt of the step is answered 200 after one or more version
\* conflicts of the call.
SucceedsAfterConflict ==
    upd.pc = "post" /\ upd'.pc = "ok" /\ upd.conflicts >= 1

\* C26: when an update that met one or more version conflicts succeeds,
\* the stored document holds every field as in the caller's document and
\* only the version token comes from the store (the one read back after
\* the last conflict, and its successor once written); what another
\* writer wrote is overwritten, and the collection holds the document as
\* before, no other one.
C26_OverwritesAfterConflict ==
    [][SucceedsAfterConflict =>
          /\ limits_db' = upd.doc.value
          /\ upd.doc.rev = updb.rev
          /\ updb'.rev = updb.rev + 1
          /\ updb'.present /\ updb.present
          /\ updb'.exists /\ updb.exists
          /\ UNCHANGED <<structure, rules_db, events_db, requests_db>>]_vars

\* An update that succeeded after a conflict with another writer's
\* document, which it replaced.
C26_Witness ==
    /\ upd.pc = "ok"
    /\ upd.conflicts >= 1 /\ upd.missing = 0
    /\ call.foreign
    /\ limits_db = upd.doc.value
    /\ limits_db # OtherDoc
    /\ updb.rev = upd.doc.rev + 1

\* C27: no step of a tick writes to the structures or to the rules
\* collection: min, max and current of every resource of the structure, and
\* the rules, are in the store after any sequence of ticks as before it.
C27_WorkloadUntouched ==
    [][/\ structure' = structure
       /\ rules_db' = rules_db]_vars

\* A second tick begins after a tick that wrote limits, events and a
\* request.
C27_Witness ==
    /\ pc = "start"
    /\ clock >= config.WINDOW_TIMELAPSE * Hz
    /\ requests_db # EmptyBag
    /\ events_db # EmptyBag

\* The limits of cpu read in the tick have every value set, the lower
\* limit not above the upper one and the boundary positive.
LimitsSet ==
    /\ loc.limits # <<>>
    /\ loc.limits["cpu"].present
    /\ NOT_AVAILABLE \notin {loc.limits["cpu"].lower, loc.limits["cpu"].upper,
                             loc.limits["cpu"].boundary}
    /\ loc.limits["cpu"].lower <= loc.limits["cpu"].upper
    /\ loc.limits["cpu"].boundary > 0

\* C28: for a container whose guarded resource has no current value, its
\* other values and its limits being set, the tick does not fail: the
\* repairer returns, the event rules are evaluated, and no request is made
\* for that resource and no event is consumed.
C28_NoCurrentTolerated ==
    (/\ pc = "sleep"
     /\ is_container(structure)
     /\ structure.resources["cpu"].current = NOT_AVAILABLE
     /\ NOT_AVAILABLE \notin {structure.resources["cpu"].min,
                              structure.resources["cpu"].max}
     /\ LimitsSet
     /\ loc.checks # <<>>) =>
        /\ loc.error = ""
        /\ loc.resources # <<>>
        /\ \A q \in TickRequests : q.resource # "cpu"
        /\ loc.consumed = EmptyBag

\* One of max, min, upper, lower and boundary of cpu is not set when
\* adjust_container_state is called.
MissingValue ==
    NOT_AVAILABLE \in {structure.resources["cpu"].max,
                       structure.resources["cpu"].min,
                       loc.limits["cpu"].upper, loc.limits["cpu"].lower,
                       loc.limits["cpu"].boundary}

\* C29: when max, min, upper, lower or boundary of a guarded resource is
\* missing, the repairer fails for that structure: the repair step is not
\* applied, and no limits, events or requests are written in that tick.
C29_MissingIsFatal ==
    [][(pc = "adjust" /\ is_container(structure) /\ MissingValue) =>
          /\ pc' = "sleep"
          /\ loc'.error # ""
          /\ loc'.repaired = {}
          /\ ~loc'.wrote_limits
          /\ UNCHANGED <<limits_db, events_db, requests_db>>]_vars

\* ------------------------------------------------- the getters of the facade
\* find_documents_by_matches(database, {"name": name}) answered 200: the
\* documents of the collection with that name, in the store's order.
find_documents_by_name(docs, name) == SelectSeq(docs, LAMBDA d : d.name = name)

\* What a getter gives its caller: the exception it raises, or the document
\* it returns (none: the value None).
Raises(exception) == [raised |-> exception, none |-> FALSE, doc |-> <<>>]

ReturnsNone == [raised |-> "", none |-> TRUE, doc |-> <<>>]

Returns(d) == [raised |-> "", none |-> FALSE, doc |-> <<d>>]

\* get_structure: dict(find_documents_by_matches(...)[0]).
get_structure(docs, structure_name) ==
    LET found == find_documents_by_name(docs, structure_name)
    IN  IF found = <<>> THEN Raises("IndexError") ELSE Returns(found[1])

\* get_limits: the first document found, None when there is none.
get_limits(docs, s) ==
    LET limits == find_documents_by_name(docs, s.name)
    IN  IF limits = <<>> THEN ReturnsNone ELSE Returns(limits[1])

StructureNames == {"node0", "node1", "node2"}

\* The documents the structures and the limits collections may hold.
StructurePool ==
    {[Container(Resource(2, 5, 4)) EXCEPT !.name = n] :
        n \in {"node0", "node1"}}

LimitsPool ==
    {[name |-> n,
      resources |-> [cpu |-> Limits(l, 3, 1), energy |-> NoLimits]] :
        n \in {"node0", "node1"}, l \in {1, 2}}

\* Collections of up to MaxLen documents, and no call made yet.
InitGetters ==
    /\ EventStores
    /\ events_db = EmptyBag
    /\ clock = 0
    /\ pc = "getters"
    /\ \E ss \in ListsUpTo(StructurePool, MaxLen), ls \in ListsUpTo(LimitsPool, MaxLen) :
          loc = [structures |-> ss, limits |-> ls]

\* A caller asks for the structure with a name.
CallGetStructure ==
    /\ pc = "getters"
    /\ \E n \in StructureNames :
          loc' = [structures |-> loc.structures, limits |-> loc.limits,
                  name |-> n, result |-> get_structure(loc.structures, n)]
    /\ pc' = "got_structure"
    /\ UNCHANGED <<store, config, clock, others>>

\* A caller asks for the limits of a structure.
CallGetLimits ==
    /\ pc = "getters"
    /\ \E n \in StructureNames :
          loc' = [structures |-> loc.structures, limits |-> loc.limits,
                  name |-> n,
                  result |-> get_limits(loc.limits,
                                [Container(Resource(2, 5, 4)) EXCEPT !.name = n])]
    /\ pc' = "got_limits"
    /\ UNCHANGED <<store, config, clock, others>>

NextGetters ==
    \/ CallGetStructure
    \/ CallGetLimits

\* The collection the call read holds no document with the name asked for.
NoneNamed ==
    \/ /\ pc = "got_structure"
       /\ find_documents_by_name(loc.structures, loc.name) = <<>>
    \/ /\ pc = "got_limits"
       /\ find_documents_by_name(loc.limits, loc.name) = <<>>

\* C30: get_structure(name) and get_limits(structure) fail with a
\* ValueError when the store holds no document with that name; they return
\* no value in that case.
C30_GettersRaiseValueError ==
    NoneNamed => loc.result.raised = "ValueError"

\* ------------------------------------------------------ properties, C31 on
\* C31: for every resource the validate/repair loop ends after at most 10
\* validations, and adjust_container_state either returns limits that pass
\* the validation or fails with an error, whatever the boundary.
C31_RepairLoopBounded ==
    loc.checks # <<>> =>
        /\ \A i \in 1..Len(loc.checks) :
              loc.checks[i] >= 1 /\ loc.checks[i] <= MAX_LOOPS
        /\ loc.wrote_limits =>
              \A i \in 1..Len(config.GUARDABLE_RESOURCES) :
                  check_invalid_container_state(structure.resources,
                      loc.limits, config.GUARDABLE_RESOURCES[i]) = "ok"
        /\ ~loc.wrote_limits => loc.error # ""

\* A boundary below zero: ten validations, each followed by a repair, and
\* the error of the cap.
C31_Witness ==
    /\ loc.checks = <<MAX_LOOPS>>
    /\ loc.limits["cpu"].boundary < 0
    /\ loc.error = "RuntimeError"
    /\ loc.repaired = {"cpu"}
    /\ ~loc.wrote_limits

\* ------------------------------------------- rules with a missing field
\* A container when the rules are matched, with request rules that lack
\* amount, events_to_remove, both or none of them.
InitMissing ==
    /\ \E c \in 3..5, b \in 1..2, l \in 0..4, u \in 0..(MaxUsage * Den), n \in 1..MaxLen, a \in {NOT_AVAILABLE, Den}, e \in {NOT_AVAILABLE, 1} :
          LET s      == Container(Resource(2, 5, c))
              limits == [cpu |-> Limits(l, c - b, b), energy |-> NoLimits]
              usages == [m \in GuardianMetrics("container") |->
                            IF m = "cpu" THEN u ELSE NoData]
              rules  == CpuRules(1, a, "amount", -1 * Den, "amount", e)
              events == EventsOfTicks(s, rules, limits, usages, n)
          IN  /\ check_invalid_container_state(s.resources, limits, "cpu") = "ok"
              /\ events # <<>>
              /\ structure = s
              /\ limits_db = limits
              /\ rules_db = rules
              /\ events_db = SeqToBag(events)
              /\ loc = LocAtMatch(s, limits, usages, events)
    /\ config = Config(<<"cpu">>, 5, MaxClock)
    /\ requests_db = EmptyBag
    /\ clock = 0
    /\ pc = "match"
    /\ upd = UpdIdle /\ updb = UpdbInit /\ call = CallIdle
    /\ main = MainIdle /\ fan = FanIdle /\ peer = PeerIdle

\* The request rules of the tick that lack a field their pass reads.
MissingField ==
    {rules_db[i] : i \in {j \in 1..Len(rules_db) :
        /\ rules_db[j].generates = "requests"
        /\ \/ rules_db[j].events_to_remove = NOT_AVAILABLE
           \/ RescaleBy(rules_db[j]) = "amount"
                 /\ rules_db[j].amount = NOT_AVAILABLE}}

\* C32: a rule that is missing a required field (amount, events_to_remove)
\* is skipped as a whole: no request of the tick comes from it, it asks for
\* no event to be removed, and the other rules are still evaluated.
C32_MissingFieldSkipsRule ==
    (pc = "sleep" /\ loc.error = "") =>
        /\ \A rule \in MissingField :
              \A q \in DOMAIN requests_db : q.rule # rule.name
        /\ (\A i \in 1..Len(rules_db) :
                rules_db[i].generates = "requests" =>
                    rules_db[i] \in MissingField)
              => loc.consumed = EmptyBag

\* ------------------------------------------- the scan of the events store
\* The loop of delete_num_events_by_structure over the list
\* get_all_database_docs built: each entry is the body of the answer to the
\* GET of one listed id, the document when it was found and the error body
\* of the store, which has no "structure" key, when it was not.
RECURSIVE DeleteScanFetched(_, _, _, _, _)
DeleteScanFetched(docs, structure_name, event_name, event_num, num_deleted) ==
    IF docs = <<>> THEN [status |-> "ok", deleted |-> <<>>]
    ELSE LET d == Head(docs)
         IN  IF ~d.found THEN [status |-> "KeyError", deleted |-> <<>>]
             ELSE LET hit  == /\ d.doc.structure = structure_name
                              /\ d.doc.name = event_name
                              /\ num_deleted < event_num
                      rest == DeleteScanFetched(Tail(docs), structure_name,
                                  event_name, event_num,
                                  IF hit THEN num_deleted + 1
                                  ELSE num_deleted)
                  IN  [status |-> rest.status,
                       deleted |-> IF hit THEN <<d.doc>> \o rest.deleted
                                   ELSE rest.deleted]

\* The events of the structure, all of one name and one timestamp.
OwnEvents(n) ==
    [i \in 1..n |-> generate_event(<<"cpu", "up">>, "node0", "cpu",
                                   [up |-> 1, down |-> 0], 0)]

\* The events of the other structure, each with its own timestamp.
PeerEvents ==
    {generate_event(<<"cpu", "up">>, "node1", "cpu", [up |-> 1, down |-> 0],
                    ts * Hz) : ts \in 0..MaxStamp}

\* The thread of node0 after match_rules_and_events, with one request and
\* a number of cpu-up events to remove, while the thread of node1 has
\* events of its own to delete.
InitScan ==
    /\ EventStores
    /\ clock = 0
    /\ pc = "list"
    /\ \E n \in 1..MaxLen, P \in SUBSET PeerEvents, event_num \in 1..MaxLen :
          /\ events_db = SeqToBag(OwnEvents(n)) (+) SetToBag(P)
          /\ loc = [rows |-> <<>>, docs |-> <<>>,
                    event_name |-> <<"cpu", "up">>,
                    event_num |-> event_num]
                   @@ [LocInit EXCEPT
                         !.db_before_consume = SeqToBag(OwnEvents(n)),
                         !.triggered_requests =
                            <<generate_request(structure, Den, "cpu",
                                  generate_request_name(Den, "cpu"),
                                  rules_db[3], 0)>>]

\* get_all_database_docs: the GET of _all_docs, the rows in the store's
\* order.
ListAllDocs ==
    /\ pc = "list"
    /\ \E rows \in Orders(events_db) : loc' = [loc EXCEPT !.rows = rows]
    /\ pc' = "get"
    /\ UNCHANGED <<store, config, clock, others>>

\* get_all_database_docs: the GET of the next listed id, its body appended
\* without a look at the status.
GetListedDoc ==
    /\ pc = "get"
    /\ Len(loc.docs) < Len(loc.rows)
    /\ LET doc == loc.rows[Len(loc.docs) + 1]
       IN  loc' = [loc EXCEPT !.docs =
                      Append(@, [found |-> BagIn(doc, events_db),
                                 doc |-> doc])]
    /\ UNCHANGED <<store, config, clock, others, pc>>

\* delete_num_events_by_structure: the loop over the list, a KeyError
\* leaving process_serverless_structure before add_requests.
ScanAndDelete ==
    /\ pc = "get"
    /\ Len(loc.docs) = Len(loc.rows)
    /\ LET scan == DeleteScanFetched(loc.docs, structure.name,
                                     loc.event_name, loc.event_num, 0)
       IN  /\ events_db' = events_db (-) SeqToBag(scan.deleted)
           /\ loc' = [loc EXCEPT !.consumed = SeqToBag(scan.deleted),
                                 !.error = IF scan.status = "ok" THEN ""
                                           ELSE scan.status]
           /\ pc' = IF scan.status = "ok" THEN "add_requests" ELSE "sleep"
    /\ UNCHANGED <<structure, limits_db, rules_db, requests_db, config, clock, others>>

\* The thread of the other structure deletes one of its own events.
PeerDeletesOwn ==
    /\ pc \in {"list", "get", "add_requests"}
    /\ \E e \in BagToSet(events_db) :
          /\ e.structure # structure.name
          /\ events_db' = events_db (-) SetToBag({e})
    /\ UNCHANGED <<structure, limits_db, rules_db, requests_db, config, clock, others, pc, loc>>

NextScan ==
    \/ ListAllDocs
    \/ GetListedDoc
    \/ ScanAndDelete
    \/ AddRequests
    \/ PeerDeletesOwn

\* C33: the threads of distinct structures do not interfere: the events
\* deleted and the requests written for the structure in a tick are the
\* same under every interleaving of its store operations with those of
\* the thread of another structure, which deletes its own events while the
\* events collection is scanned: as many events of the name as asked for,
\* or all that match, are deleted and the request is written.
C33_ThreadsDoNotInterfere ==
    pc = "sleep" =>
        /\ loc.error = ""
        /\ BagCardinality(loc.consumed) =
              Min2(loc.event_num, BagCardinality(loc.db_before_consume))
        /\ requests_db = SeqToBag(loc.triggered_requests)

\* --------------------------------------- the rule documents of one tick
Threads == {"node0", "node1"}

\* The events of a structure that its thread has reduced: n cpu-up events.
ThreadEvents(structure_name, n) ==
    reduce_structure_events(
        [i \in 1..n |-> generate_event(<<"cpu", "up">>, structure_name, "cpu",
                                       [up |-> 1, down |-> 0], 0)])

\* guard_structures has read the rules once and has handed the same list
\* to the thread of each of two containers; the rule documents have a
\* rescale_by key or none ("").
InitShared ==
    /\ structure = Container(Resource(2, 5, 4))
    /\ limits_db = [cpu |-> Limits(2, 3, 1), energy |-> NoLimits]
    /\ rules_db \in {CpuRules(1, Den, up_by, -1 * Den, down_by, 1) :
                        up_by \in {"", "amount"}, down_by \in {"", "amount"}}
    /\ config = Config(<<"cpu">>, 5, MaxClock)
    /\ events_db = EmptyBag
    /\ requests_db = EmptyBag
    /\ clock = 0
    /\ pc = "threads"
    /\ \E n \in [Threads -> 0..MaxLen] :
          loc = [rules |-> rules_db,
                 events |-> [t \in Threads |-> ThreadEvents(t, n[t])],
                 at |-> [t \in Threads |-> 1],
                 read |-> {}, written |-> {}]
    /\ upd = UpdIdle /\ updb = UpdbInit /\ call = CallIdle
    /\ main = MainIdle /\ fan = FanIdle /\ peer = PeerIdle

\* One pass of the loop of match_rules_and_events in the thread t, up to
\* the choice of the policy: the rule document is read, and the one of a
\* rule that fires without a rescale_by key is given the key.
RuleLoopPass(t) ==
    /\ pc = "threads"
    /\ loc.at[t] <= Len(loc.rules)
    /\ LET i    == loc.at[t]
           rule == loc.rules[i]
           sets == /\ RuleFires(rule, loc.events[t])
                   /\ rule.rescale_by = ""
       IN  loc' = [loc EXCEPT
                     !.rules[i].rescale_by = IF sets THEN "amount" ELSE @,
                     !.written = IF sets THEN @ \cup {<<t, rule.name>>}
                                 ELSE @,
                     !.read = @ \cup {<<t, rule.name>>},
                     !.at[t] = @ + 1]
    /\ UNCHANGED <<store, config, clock, others, pc>>

NextShared == \E t \in Threads : RuleLoopPass(t)

\* C34: the threads of one tick share no mutable in-process state: no
\* thread writes to a rule document that another thread of the same tick
\* reads.
C34_NoSharedWrites ==
    \A w \in loc.written : \A r \in loc.read :
        r[1] # w[1] => r[2] # w[2]

\* C35: the aging step captures now once per call: all the events of one
\* call are classified against the same instant, so two events with the
\* same timestamp are put in the same group, both valid or both stale, even
\* if the clock advances during the call.
C35_OneInstantPerCall ==
    pc \in {"age_second", "aged_twice"} =>
        \A e \in BagToSet(loc.valid1) : \A f \in BagToSet(loc.invalid1) :
            e.timestamp # f.timestamp

\* C36: an update call never fails on a version conflict before the 6th
\* conflict response of that call: for every sequence of store responses
\* mixing conflicts (409) and missing-collection answers (404), each of the
\* first 5 conflicts is followed by a refetch and a retry.
C36_FiveConflictsRetried ==
    /\ upd.error = "409" => upd.conflicts >= MAX_UPDATE_TRIES + 1
    /\ (upd.status = 409 /\ upd.conflicts <= MAX_UPDATE_TRIES) =>
          upd.pc \in {"refetch", "post", "ok"} \/ upd.error \in {"404", "IndexError", "500"}

\* ------------------------------------------------- the removal of events
\* A container that guards cpu over several ticks, the store holding an
\* event of another structure.
InitTicks ==
    /\ structure = Container(Resource(2, 5, 4))
    /\ limits_db = [cpu |-> Limits(2, 3, 1), energy |-> NoLimits]
    /\ rules_db \in RuleSets
    /\ config = Config(<<"cpu">>, 5, MaxClock)
    /\ events_db = SetToBag({generate_event(<<"cpu", "up">>, "node1", "cpu",
                                            [up |-> 1, down |-> 0], 0)})
    /\ requests_db = EmptyBag
    /\ clock = 0
    /\ pc = "start"
    /\ loc = LocInit
    /\ upd = UpdIdle /\ updb = UpdbInit /\ call = CallIdle
    /\ main = MainIdle /\ fan = FanIdle /\ peer = PeerIdle

\* The sum of events_to_remove of the rules of a list that are in fired and
\* watch the resource r.
RECURSIVE FiredSum(_, _, _)
FiredSum(rules, fired, r) ==
    IF rules = <<>> THEN 0
    ELSE (IF /\ Head(rules).name \in fired
             /\ Head(rules).resource = r
             /\ Head(rules).events_to_remove # NOT_AVAILABLE
            THEN Head(rules).events_to_remove ELSE 0)
         + FiredSum(Tail(rules), fired, r)

\* The events a step removes from the store.
RemovedByStep == events_db (-) events_db'

\* The step removes events that sort_events found stale at the clock
\* reading taken for them, all of the structure that is processed.
RemovesStale ==
    /\ pc = "age"
    /\ \A d \in BagToSet(RemovedByStep) :
          /\ d.structure = structure.name
          /\ CopiesIn(d, RemovedByStep) <=
                Cardinality({i \in 1..Len(loc'.all_events) :
                    /\ loc'.all_events[i] = d
                    /\ d.timestamp * Hz
                          < loc'.times[i] - config.EVENT_TIMEOUT * Hz})

\* The step removes events of the structure with the event name of a
\* request rule that fired in the tick, of each name no more than the sum
\* of events_to_remove of the rules that fired.
RemovesConsumed ==
    /\ pc = "match"
    /\ \A d \in BagToSet(RemovedByStep) :
          /\ d.structure = structure.name
          /\ \E i \in 1..Len(rules_db) :
                /\ rules_db[i].name \in loc'.fired
                /\ rules_db[i].generates = "requests"
                /\ rules_db[i].resource = d.name[1]
                /\ d.name \in {generate_event_name(
                                  loc'.reduced_events[d.name[1]], d.name[1],
                                  tie) : tie \in {"up", "down"}}
    /\ \A n \in EventNames :
          BagCardinality(Matching(RemovedByStep, structure.name, n))
              <= FiredSum(rules_db, loc'.fired, n[1])

\* C37: an event is removed from the store only because it is stale
\* (timestamp < now - EVENT_TIMEOUT) when its structure is processed, or
\* because it belongs to the structure and has the event name of a request
\* rule that fired for the structure in the tick; the fired rules never
\* remove more events of a name than the sum of their events_to_remove.
C37_RemovalReasons ==
    [][RemovedByStep # EmptyBag => (RemovesStale \/ RemovesConsumed)]_vars

\* A tick that removed a stale event and then events of a rule that fired,
\* the event of the other structure staying in the store.
C37_Witness ==
    /\ pc = "add_requests"
    /\ \E i \in 1..Len(loc.ops) : loc.ops[i] = "delete_stale"
    /\ loc.consumed # EmptyBag
    /\ \E d \in BagToSet(events_db) : d.structure # structure.name

Spec == Init /\ [][Next]_vars

SpecOneTick == InitOneTick /\ [][Next]_vars

SpecFacade == InitFacade /\ [][NextFacade]_vars

SpecGuard == InitGuard /\ [][NextGuard]_vars

SpecEvents == InitEvents /\ [][NextEvents]_vars

SpecMatch == InitMatch /\ [][NextMatch]_vars

SpecGetters == InitGetters /\ [][NextGetters]_vars

SpecRules == InitMissing /\ [][NextMatch]_vars

SpecScan == InitScan /\ [][NextScan]_vars

SpecShared == InitShared /\ [][NextShared]_vars

SpecTicks == InitTicks /\ [][Next]_vars

\* Every thread that can take a step takes it, and time passes. The step
\* MatchRules is enabled exactly when pc = "match" and leaves that point, so
\* that its weak fairness is []<>(pc # "match").
Fairness ==
    /\ WF_vars(Pipeline)
    /\ []<>(pc # "match")
    /\ WF_vars(PeerFinish)
    /\ WF_vars(FanGetRules \/ FanStep \/ FanInlineReturn \/ FanJoin)
    /\ WF_vars(WakeUp \/ Join)
    /\ WF_vars(Tick)

SpecGuardFair == InitGuardRaise /\ [][NextGuard]_vars /\ Fairness
====
